---- MODULE Spec2Model ----
(***************************************************************************)
(* A model of the PragyanAI job portal: the fit-score extraction of the    *)
(* match loops, the LLM gateway operations, the content extractor and its  *)
(* callers, and the MongoDB DatabaseManager.                               *)
(*                                                                         *)
(* Python strings are sequences of tokens.  A token is one character       *)
(* (a digit, a blank, "%", "[", "]", "/", "*") or a literal phrase that    *)
(* the code searches for as a whole ("Overall Fit Score:", ...).           *)
(* A Python dict is a record; a missing key is a missing field.            *)
(***************************************************************************)
EXTENDS Integers, Sequences, FiniteSets, TLC

VARIABLES
    env,                \* the process environment: the two settings and the MongoDB server
    variant,            \* which match loop runs: one of Variants
    fit_reply,          \* what the fit evaluations of the last analysis run did
    ss,                 \* st.session_state
    connected,          \* DatabaseManager.is_connected()
    db,                 \* the MongoDB database: collection name -> documents
    clock,              \* datetime.utcnow(), as a logical clock: a handler takes a tick
    next_id,            \* the next ObjectId
    manager,            \* the module whose DatabaseManager is in use
    ret                 \* the last operation called: its arguments and how it ended

vars == <<env, variant, fit_reply, ss, connected, db, clock, next_id, manager, ret>>

(***************************************************************************)
(* Bounds                                                                  *)
(***************************************************************************)
MaxRunLen == 2        \* longest digit run the LLM writes for a score
MaxClock  == 3        \* ticks of the clock in one behaviour

(***************************************************************************)
(* Characters and phrases                                                  *)
(***************************************************************************)
DigitChars == {"0", "1", "2", "3", "4", "5", "6", "7", "8", "9"}
SpaceChars == {" ", "\n", "\t"}

IsDigit(t) == t \in DigitChars
IsSpace(t) == t \in SpaceChars

\* re.IGNORECASE: the label is found in either case
OverallLabels    == {"Overall Fit Score:", "overall fit score:"}
SkillsLabels     == {"Skills Match:", "skills match:"}
ExperienceLabels == {"Experience Match:", "experience match:"}
EducationLabels  == {"Education Match:", "education match:"}

\* no re.IGNORECASE on the block search: only the exact phrases
SectionMarker   == "--- Section Match Analysis ---"
StrengthsMarker == "Strengths/Matches:"

NA    == <<"N/A">>
Error == <<"Error">>

NoMatch == [found |-> FALSE]
Match(g) == [found |-> TRUE, group |-> g]

(***************************************************************************)
(* Regular-expression pieces                                               *)
(***************************************************************************)
\* \s* from position i: the first position at or after i that is no blank
SkipSpace(s, i) ==
    CHOOSE j \in i..(Len(s) + 1) :
        /\ \A k \in i..(j - 1) : IsSpace(s[k])
        /\ (j = Len(s) + 1 \/ ~IsSpace(s[j]))

\* \d* from position i
SkipDigits(s, i) ==
    CHOOSE j \in i..(Len(s) + 1) :
        /\ \A k \in i..(j - 1) : IsDigit(s[k])
        /\ (j = Len(s) + 1 \/ ~IsDigit(s[j]))

\* [^\d]* from position i
SkipNonDigits(s, i) ==
    CHOOSE j \in i..(Len(s) + 1) :
        /\ \A k \in i..(j - 1) : ~IsDigit(s[k])
        /\ (j = Len(s) + 1 \/ IsDigit(s[j]))

\* the literal lit at position i
LitAt(s, i, lit) ==
    /\ i + Len(lit) - 1 <= Len(s)
    /\ \A k \in 1..Len(lit) : s[i + k - 1] = lit[k]

Slash10 == <<"/", "1", "0">>

\* str.isdigit()
isdigit(s) == Len(s) > 0 /\ \A k \in 1..Len(s) : IsDigit(s[k])

DigitValue(t) ==
    CASE t = "0" -> 0 [] t = "1" -> 1 [] t = "2" -> 2 [] t = "3" -> 3
      [] t = "4" -> 4 [] t = "5" -> 5 [] t = "6" -> 6 [] t = "7" -> 7
      [] t = "8" -> 8 [] t = "9" -> 9

RECURSIVE int(_)
int(s) == IF Len(s) = 0 THEN 0
          ELSE 10 * int(SubSeq(s, 1, Len(s) - 1)) + DigitValue(s[Len(s)])

(***************************************************************************)
(* The match loops                                                         *)
(***************************************************************************)
Variants == {"app_admin", "app_candidate", "portal_admin", "portal_candidate"}
AppVariants == {"app_admin", "app_candidate"}

\* the pattern with (\d) for (\d+): one digit only
OverallAtStrict_OneDigit(s, i) ==
    LET j == SkipSpace(s, i + 1)
        k == IF j <= Len(s) /\ IsDigit(s[j]) THEN j + 1 ELSE j
        l == SkipSpace(s, k)
    IN  IF s[i] \in OverallLabels /\ k > j /\ LitAt(s, l, Slash10)
        THEN Match(SubSeq(s, j, k - 1)) ELSE NoMatch

\* r'Overall Fit Score:\s*(\d+)\s*/10' tried at position i
OverallAtStrict(s, i) ==
    LET j == SkipSpace(s, i + 1)
        k == SkipDigits(s, j)
        l == SkipSpace(s, k)
    IN  IF s[i] \in OverallLabels /\ k > j /\ LitAt(s, l, Slash10)
        THEN Match(SubSeq(s, j, k - 1)) ELSE NoMatch

\* r'Overall Fit Score:\s*[^\d]*(\d+)\s*/10' tried at position i
OverallAtLoose(s, i) ==
    LET j == SkipNonDigits(s, SkipSpace(s, i + 1))
        k == SkipDigits(s, j)
        l == SkipSpace(s, k)
    IN  IF s[i] \in OverallLabels /\ k > j /\ LitAt(s, l, Slash10)
        THEN Match(SubSeq(s, j, k - 1)) ELSE NoMatch

OverallAt(v, s, i) ==
    IF v \in AppVariants THEN OverallAtStrict(s, i) ELSE OverallAtLoose(s, i)

\* overall_score_match = re.search(..., fit_output, re.IGNORECASE)
OverallScoreMatch(v, fit_output) ==
    LET hits == {i \in 1..Len(fit_output) : OverallAt(v, fit_output, i).found}
    IN  IF hits = {} THEN NoMatch
        ELSE OverallAt(v, fit_output, CHOOSE i \in hits : \A h \in hits : i <= h)

\* the search falling back to the whole response when the block is not found
SectionAnalysisMatch_WholeText(fit_output) ==
    LET n == Len(fit_output)
        hits == {m \in 1..n : /\ fit_output[m] = SectionMarker
                               /\ \E q \in (m + 1)..n : fit_output[q] = StrengthsMarker}
    IN  IF hits = {} THEN Match(fit_output)
        ELSE LET m     == CHOOSE i \in hits : \A h \in hits : i <= h
                 start == SkipSpace(fit_output, m + 1)
                 q     == CHOOSE i \in start..n :
                              /\ fit_output[i] = StrengthsMarker
                              /\ \A h \in start..(i - 1) : fit_output[h] # StrengthsMarker
             IN  Match(SubSeq(fit_output, start, q - 1))

\* section_analysis_match = re.search(
\*     r'--- Section Match Analysis ---\s*(.*?)\s*Strengths/Matches:', fit_output, re.DOTALL)
SectionAnalysisMatch(fit_output) ==
    LET n == Len(fit_output)
        hits == {m \in 1..n : /\ fit_output[m] = SectionMarker
                               /\ \E q \in (m + 1)..n : fit_output[q] = StrengthsMarker}
    IN  IF hits = {} THEN NoMatch
        ELSE LET m     == CHOOSE i \in hits : \A h \in hits : i <= h
                 start == SkipSpace(fit_output, m + 1)
                 q     == CHOOSE i \in start..n :
                              /\ fit_output[i] = StrengthsMarker
                              /\ \A h \in start..(i - 1) : fit_output[h] # StrengthsMarker
                 p     == CHOOSE i \in start..q :
                              /\ \A h \in i..(q - 1) : IsSpace(fit_output[h])
                              /\ (i = start \/ ~IsSpace(fit_output[i - 1]))
             IN  Match(SubSeq(fit_output, start, p - 1))

\* r'<Label> Match:\s*(\d+)%' tried at position i
PercentAtStrict(labels, s, i) ==
    LET j == SkipSpace(s, i + 1)
        k == SkipDigits(s, j)
    IN  IF s[i] \in labels /\ k > j /\ LitAt(s, k, <<"%">>)
        THEN Match(SubSeq(s, j, k - 1)) ELSE NoMatch

\* r'<Label> Match:\s*\[?(\d+)%\]?' tried at position i
PercentAtBracket(labels, s, i) ==
    LET b == SkipSpace(s, i + 1)
        j == IF LitAt(s, b, <<"[">>) THEN b + 1 ELSE b
        k == SkipDigits(s, j)
    IN  IF s[i] \in labels /\ k > j /\ LitAt(s, k, <<"%">>)
        THEN Match(SubSeq(s, j, k - 1)) ELSE NoMatch

PercentAt(v, labels, s, i) ==
    IF v \in AppVariants THEN PercentAtStrict(labels, s, i)
    ELSE PercentAtBracket(labels, s, i)

\* skills_match / experience_match / education_match =
\*     re.search(..., section_text, re.IGNORECASE)
PercentMatch(v, labels, section_text) ==
    LET hits == {i \in 1..Len(section_text) : PercentAt(v, labels, section_text, i).found}
    IN  IF hits = {} THEN NoMatch
        ELSE PercentAt(v, labels, section_text, CHOOSE i \in hits : \A h \in hits : i <= h)

\* m.group(1) if m else 'N/A'
GroupOrNA(m) == IF m.found THEN m.group ELSE NA

\* the three captures made to depend on each other: all or nothing
SectionPercent_AllOrNothing(v, labels, fit_output) ==
    LET section_analysis_match == SectionAnalysisMatch(fit_output)
    IN  IF section_analysis_match.found
        THEN LET m == PercentMatch(v, labels, section_analysis_match.group)
                 all == \A ls \in {SkillsLabels, ExperienceLabels, EducationLabels} :
                            PercentMatch(v, ls, section_analysis_match.group).found
             IN  IF all THEN m.group ELSE NA
        ELSE NA

\* skills_percent, experience_percent, education_percent = 'N/A', 'N/A', 'N/A'
\* if section_analysis_match: ... if skills_match: skills_percent = skills_match.group(1)
SectionPercent(v, labels, fit_output) ==
    IF SectionAnalysisMatch(fit_output).found
    THEN GroupOrNA(PercentMatch(v, labels, SectionAnalysisMatch(fit_output).group))
    ELSE NA

\* group(0) taken for group(1): the whole match, label included
OverallScore_WholeMatch(v, fit_output) ==
    LET overall_score_match == OverallScoreMatch(v, fit_output)
    IN  IF overall_score_match.found
        THEN <<"Overall Fit Score:">> \o overall_score_match.group \o Slash10
        ELSE NA

\* overall_score = overall_score_match.group(1) if overall_score_match else 'N/A'
OverallScore(v, fit_output) == GroupOrNA(OverallScoreMatch(v, fit_output))

(***************************************************************************)
(* Python values decoded from the LLM's JSON carry their type              *)
(***************************************************************************)
PyStr(s)  == [type |-> "str", value |-> s]
PyList(x) == [type |-> "list", value |-> x]
PyDict(x) == [type |-> "dict", value |-> x]
PyNone    == [type |-> "NoneType", value |-> <<>>]

\* bool(v): None, "", [] and {} are false
bool(v) == v.type # "NoneType" /\ DOMAIN v.value # {}

(***************************************************************************)
(* Python dicts                                                            *)
(***************************************************************************)
\* d[k] = v
Put(d, k, v) == [f \in (DOMAIN d) \cup {k} |-> IF f = k THEN v ELSE d[f]]

\* d.update(e), MongoDB's {'$set': e}
Merge(d, e) == [f \in (DOMAIN d) \cup (DOMAIN e) |-> IF f \in DOMAIN e THEN e[f] ELSE d[f]]

\* del d[k]
Del(d, k) == [f \in (DOMAIN d) \ {k} |-> d[f]]

(***************************************************************************)
(* DatabaseManager                                                         *)
(***************************************************************************)
Roles == {"admin", "candidate"}

Collections == {"admin_jds", "candidate_jds", "admin_resumes", "vendors",
                "admin_match_results", "candidate_match_results"}

EmptyDb == [c \in Collections |-> <<>>]

JdsOf(user_role)          == IF user_role = "admin" THEN "admin_jds" ELSE "candidate_jds"
MatchResultsOf(user_role) == IF user_role = "admin" THEN "admin_match_results"
                             ELSE "candidate_match_results"

\* collection.insert_one(doc): the document gets the next ObjectId and goes last
insert_one(d, coll, doc, id) == [d EXCEPT ![coll] = Append(@, Put(doc, "_id", id))]

\* def get_platform_metrics(self): the counts of the collections, zeros when
\* not connected (no social media post is ever counted)
get_platform_metrics(d, conn) ==
    IF ~conn
    THEN [total_candidates |-> 0, total_jds |-> 0, total_vendors |-> 0,
          no_of_applications |-> 0, no_of_social_media_posts |-> 0]
    ELSE [total_candidates |-> Len(d["admin_resumes"]),
          total_jds |-> Len(d["admin_jds"]) + Len(d["candidate_jds"]),
          total_vendors |-> Len(d["vendors"]),
          no_of_applications |-> Len(d["admin_match_results"])
                                 + Len(d["candidate_match_results"]),
          no_of_social_media_posts |-> 0]

\* the insert made without asking is_connected() first
save_match_result_Unguarded(d, conn, result_data, user_role, now, id) ==
    insert_one(d, MatchResultsOf(user_role), Put(result_data, "created_at", now), id)

\* every role's results put into the one collection of the admin
save_match_result_OneCollection(d, conn, result_data, user_role, now, id) ==
    IF ~conn THEN d
    ELSE insert_one(d, "admin_match_results", Put(result_data, "created_at", now), id)

\* def save_match_result(self, result_data, user_role)
save_match_result(d, conn, result_data, user_role, now, id) ==
    IF ~conn THEN d
    ELSE insert_one(d, MatchResultsOf(user_role), Put(result_data, "created_at", now), id)

\* str(doc['_id'])
str(id) == <<"ObjectId", id>>

\* created_at.strftime("%Y-%m-%d %H:%M"): the time to the minute
TicksPerMinute == 2
strftime(t) == <<"minute", t \div TicksPerMinute>>

\* def get_match_results(self, user_role): newest first, at most 50, with the
\* ObjectId as a string and the creation time formatted for display
RECURSIVE SortByCreatedDesc(_)
SortByCreatedDesc(s) ==
    IF Len(s) <= 1 THEN s
    ELSE LET rest == SortByCreatedDesc(Tail(s))
             x    == Head(s)
             pos  == Cardinality({i \in 1..Len(rest) : rest[i].created_at > x.created_at})
         IN  SubSeq(rest, 1, pos) \o <<x>> \o SubSeq(rest, pos + 1, Len(rest))

ResultLimit == 50

get_match_results(d, conn, user_role) ==
    IF ~conn THEN <<>>
    ELSE LET sorted  == SortByCreatedDesc(d[MatchResultsOf(user_role)])
             results == SubSeq(sorted, 1, IF Len(sorted) < ResultLimit THEN Len(sorted)
                                          ELSE ResultLimit)
         IN  [i \in 1..Len(results) |->
                 Put(Put(results[i], "_id", str(results[i]._id)),
                     "created_at_str", strftime(results[i].created_at))]

\* Python's None where an ObjectId is expected (ObjectIds start at 1)
None == 0

\* collection.find_one(filter) returns one of the matching documents (MongoDB
\* does not specify which) or None: the indices it can return, 0 for None
find_one(matching) == IF matching = {} THEN {0} ELSE matching

\* the clock after a save, and the next ObjectId after it
Tick(conn, now) == IF conn THEN now + 1 ELSE now
Fresh(result, id) == IF result = id THEN id + 1 ELSE id

\* collection.update_one({'_id': docs[i]['_id']}, {'$set': data})
update_one(d, coll, i, data) == [d EXCEPT ![coll][i] = Merge(@, data)]

\* the documents that match {'name': ..., 'content': ...}
MatchingJds(docs, jd_data) ==
    {i \in 1..Len(docs) : docs[i].name = jd_data.name /\ docs[i].content = jd_data.content}

\* the documents that match {'name': resume_name}
MatchingResumes(docs, resume_name) == {i \in 1..Len(docs) : docs[i].name = resume_name}

\* the documents that match the filter of save_vendor: name or contact email in
\* Pragyanaiapp.py, name alone in mongodb_manager.py
MatchingVendors(m, docs, vendor_data) ==
    {i \in 1..Len(docs) :
        \/ docs[i].name = vendor_data.name
        \/ (m = "Pragyanaiapp" /\ docs[i].contact_email = vendor_data.contact_email)}

\* def save_jd(self, jd_data, user_role); existing_jd is what find_one returned
save_jd_InsertAlways(d, conn, jd_data, user_role, now, id, existing_jd) ==
    IF ~conn THEN [db |-> d, result |-> None]
    ELSE [db |-> insert_one(d, JdsOf(user_role),
                            Merge(jd_data, [updated_at |-> now, created_at |-> now]), id),
          result |-> id]

save_jd(d, conn, jd_data, user_role, now, id, existing_jd) ==
    IF ~conn THEN [db |-> d, result |-> None]
    ELSE LET collection == JdsOf(user_role)
             data       == Put(jd_data, "updated_at", now)
         IN  IF existing_jd # 0
             THEN [db |-> update_one(d, collection, existing_jd, data),
                   result |-> d[collection][existing_jd]._id]
             ELSE [db |-> insert_one(d, collection, Put(data, "created_at", now), id),
                   result |-> id]

\* def get_jds(self, user_role): newest first, the ObjectId as a string
get_jds(d, conn, user_role) ==
    IF ~conn THEN <<>>
    ELSE LET jds == SortByCreatedDesc(d[JdsOf(user_role)])
         IN  [i \in 1..Len(jds) |-> Put(jds[i], "_id", str(jds[i]._id))]

\* the update stamping created_at again, as the insert does
save_resume_RestampsCreated(m, d, conn, resume_data, now, id, existing_resume) ==
    IF ~conn THEN [db |-> d, result |-> None]
    ELSE LET data == Merge([status |-> "Pending"],
                           Merge(resume_data, [updated_at |-> now, created_at |-> now]))
         IN  IF existing_resume # 0
             THEN [db |-> update_one(d, "admin_resumes", existing_resume, data),
                   result |-> d["admin_resumes"][existing_resume]._id]
             ELSE [db |-> insert_one(d, "admin_resumes", data, id), result |-> id]

\* def save_resume(self, resume_data): Pragyanaiapp.py keeps the status of the
\* stored resume, mongodb_manager.py overwrites it
save_resume(m, d, conn, resume_data, now, id, existing_resume) ==
    IF ~conn THEN [db |-> d, result |-> None]
    ELSE LET stamped == Put(resume_data, "updated_at", now)
             data    == IF "status" \in DOMAIN stamped THEN stamped
                        ELSE Put(stamped, "status", "Pending")
         IN  IF existing_resume # 0
             THEN LET old  == d["admin_resumes"][existing_resume]
                      kept == IF m = "Pragyanaiapp" /\ "status" \in DOMAIN old
                              THEN Put(data, "status", old.status) ELSE data
                  IN  [db |-> update_one(d, "admin_resumes", existing_resume, kept),
                       result |-> old._id]
             ELSE [db |-> insert_one(d, "admin_resumes", Put(data, "created_at", now), id),
                   result |-> id]

\* def get_resumes(self): newest first, the ObjectId as a string, a status always
get_resumes(d, conn) ==
    IF ~conn THEN <<>>
    ELSE LET resumes == SortByCreatedDesc(d["admin_resumes"])
         IN  [i \in 1..Len(resumes) |->
                 LET resume == Put(resumes[i], "_id", str(resumes[i]._id))
                 IN  IF "status" \in DOMAIN resume THEN resume
                     ELSE Put(resume, "status", "Pending")]

\* def save_vendor(self, vendor_data)
save_vendor(d, conn, vendor_data, now, id, existing_vendor) ==
    IF ~conn THEN [db |-> d, result |-> None]
    ELSE LET stamped == Put(vendor_data, "updated_at", now)
             data    == IF "status" \in DOMAIN stamped THEN stamped
                        ELSE Put(stamped, "status", "Pending")
         IN  IF existing_vendor # 0
             THEN [db |-> update_one(d, "vendors", existing_vendor, data),
                   result |-> d["vendors"][existing_vendor]._id]
             ELSE [db |-> insert_one(d, "vendors", Put(data, "created_at", now), id),
                   result |-> id]

\* def get_vendors(self): newest first, the ObjectId as a string, a status always
get_vendors(d, conn) ==
    IF ~conn THEN <<>>
    ELSE LET vendors == SortByCreatedDesc(d["vendors"])
         IN  [i \in 1..Len(vendors) |->
                 LET vendor == Put(vendors[i], "_id", str(vendors[i]._id))
                 IN  IF "status" \in DOMAIN vendor THEN vendor
                     ELSE Put(vendor, "status", "Pending")]

(***************************************************************************)
(* What the LLM writes for a fit evaluation                                *)
(***************************************************************************)
InputDigits == {"0", "1"}

\* the digit runs of length 1..MaxRunLen
ScoreRuns == UNION {[1..n -> InputDigits] : n \in 1..MaxRunLen}
PctRuns   == {<<"7">>, <<"8", "0">>}

OverallForms ==
    {[style |-> "none", run |-> <<>>]}
    \cup {[style |-> st, run |-> r] : st \in {"plain", "star"}, r \in ScoreRuns}
    \cup {[style |-> st, run |-> <<"7">>] : st \in {"bracket", "no10", "lower"}}

LabelForms ==
    {[style |-> "none", run |-> <<>>], [style |-> "nopct", run |-> <<>>],
     [style |-> "bracket", run |-> <<"6", "0">>]}
    \cup {[style |-> "plain", run |-> r] : r \in PctRuns}

FitTexts ==
    [ov : OverallForms, stray : {"none", "before", "after"}, mark : BOOLEAN,
     sk : LabelForms, ex : LabelForms, ed : LabelForms, str : BOOLEAN]

OverallLine(f) ==
    CASE f.style = "none"    -> <<>>
      [] f.style = "plain"   -> <<"Overall Fit Score:", " ">> \o f.run \o Slash10 \o <<"\n", "\n">>
      [] f.style = "star"    -> <<"Overall Fit Score:", " ", "*", "*">> \o f.run \o Slash10
                                    \o <<"*", "*", "\n", "\n">>
      [] f.style = "bracket" -> <<"Overall Fit Score:", " ", "[">> \o f.run \o <<"]">> \o Slash10
                                    \o <<"\n", "\n">>
      [] f.style = "no10"    -> <<"Overall Fit Score:", " ">> \o f.run \o <<" ", "out of ten", "\n">>
      [] f.style = "lower"   -> <<"overall fit score:", "\t">> \o f.run \o <<" ">> \o Slash10
                                    \o <<"\n", "\n">>

LabelLine(label, f) ==
    CASE f.style = "none"    -> <<>>
      [] f.style = "nopct"   -> <<label, " ", "N/A", "\n">>
      [] f.style = "plain"   -> <<label, " ">> \o f.run \o <<"%", "\n">>
      [] f.style = "bracket" -> <<label, " ", "[">> \o f.run \o <<"%", "]", "\n">>

\* percentages quoted outside the section block
StrayLines ==
    <<"Skills Match:", " ", "9", "9", "%", "\n", "Experience Match:", " ", "9", "8", "%", "\n",
      "Education Match:", " ", "9", "7", "%", "\n">>

\* the response text, laid out as the prompt of evaluate_jd_fit asks
Render(t) ==
    OverallLine(t.ov)
    \o (IF t.stray = "before" THEN StrayLines ELSE <<>>)
    \o (IF t.mark THEN <<SectionMarker, "\n">> ELSE <<>>)
    \o LabelLine("Skills Match:", t.sk)
    \o LabelLine("Experience Match:", t.ex)
    \o LabelLine("Education Match:", t.ed)
    \o <<"\n">>
    \o (IF t.str THEN <<StrengthsMarker, "\n", "- Point", "\n">> ELSE <<>>)
    \o (IF t.stray = "after" THEN StrayLines ELSE <<>>)
    \o <<"Overall Summary:", " ", "fit", "\n">>

\* str.strip()
strip(s) ==
    IF \A k \in 1..Len(s) : IsSpace(s[k]) THEN <<>>
    ELSE LET a == CHOOSE i \in 1..Len(s) : ~IsSpace(s[i]) /\ \A h \in 1..(i - 1) : IsSpace(s[h])
             b == CHOOSE i \in 1..Len(s) : ~IsSpace(s[i]) /\ \A h \in (i + 1)..Len(s) : IsSpace(s[h])
         IN  SubSeq(s, a, b)

\* what client.chat.completions.create does: it returns a text or it raises
Returned(text) == [kind |-> "returned", value |-> text]
Raised(what)   == [kind |-> "raised", exc |-> what]

\* the name evaluate_jd_fit can be undefined only where it is imported in a try
FitReplies(v) == {[kind |-> "text", text |-> t] : t \in FitTexts}
                 \cup {[kind |-> "raise"]}
                 \cup (IF v = "portal_candidate" THEN {[kind |-> "nameerror"]} ELSE {})

PleasePaste == <<"Please paste a job description.">>

\* def evaluate_jd_fit(job_description, parsed_json)
evaluate_jd_fit(job_description, reply) ==
    IF strip(job_description) = <<>> THEN Returned(PleasePaste)
    ELSE IF reply.kind = "text" THEN Returned(strip(Render(reply.text)))
    ELSE Raised("Exception")

\* the replies a run has used: a blank job description makes no LLM call
Used(v, pairs, replies) ==
    [i \in 1..Len(pairs) |->
        IF v \in {"app_admin", "app_candidate"} /\ strip(pairs[i].jd_content) = <<>>
        THEN [kind |-> "nocall"] ELSE replies[i]]

\* evaluate_jd_fit as the portal dashboards import it: a text, an exception,
\* or the name is not defined
imported_evaluate_jd_fit(job_description, reply) ==
    CASE reply.kind = "text"      -> Returned(strip(Render(reply.text)))
      [] reply.kind = "raise"     -> Raised("Exception")
      [] reply.kind = "nameerror" -> Raised("NameError")

\* the dict built at the end of the try block of a match loop
ResultDict(v, resume_name, jd_name, fit_output, overall_score, skills_percent, experience_percent, education_percent) ==
    IF v = "portal_candidate"
    THEN [jd_name |-> jd_name, overall_score |-> overall_score,
          numeric_score |-> IF isdigit(overall_score) THEN int(overall_score) ELSE -1,
          skills_percent |-> skills_percent, experience_percent |-> experience_percent,
          education_percent |-> education_percent, full_analysis |-> fit_output]
    ELSE [resume_name |-> resume_name, jd_name |-> jd_name,
          overall_score |-> overall_score, skills_percent |-> skills_percent,
          experience_percent |-> experience_percent,
          education_percent |-> education_percent, full_analysis |-> fit_output]

\* the extraction of the four fields from the response, and the dict of them
ResultItem(v, resume_name, jd_name, fit_output) ==
    ResultDict(v, resume_name, jd_name, fit_output,
               OverallScore(v, fit_output),
               SectionPercent(v, SkillsLabels, fit_output),
               SectionPercent(v, ExperienceLabels, fit_output),
               SectionPercent(v, EducationLabels, fit_output))

\* the dict built in the except branch of a match loop
ErrorItem(v, resume_name, jd_name, exc) ==
    IF v = "portal_candidate"
    THEN [jd_name |-> jd_name, overall_score |-> Error, numeric_score |-> -1,
          full_analysis |-> <<"Error running analysis", exc>>]
    ELSE [resume_name |-> resume_name, jd_name |-> jd_name,
          overall_score |-> Error, skills_percent |-> Error,
          experience_percent |-> Error, education_percent |-> Error,
          full_analysis |-> <<"Error running analysis", exc>>]

\* one pass of the loop body: try: evaluate, extract, build / except: error dict
ItemOf(v, resume_name, jd_name, out) ==
    IF out.kind = "returned" THEN ResultItem(v, resume_name, jd_name, out.value)
    ELSE ErrorItem(v, resume_name, jd_name, out.exc)

MatchItem(v, resume_name, jd_name, jd_content, reply) ==
    ItemOf(v, resume_name, jd_name,
           IF v \in AppVariants THEN evaluate_jd_fit(jd_content, reply)
           ELSE imported_evaluate_jd_fit(jd_content, reply))

\* the pairs a run loops over: every loaded resume against the selected JD
\* (admin), the loaded resume against every selected JD (candidate)
AdminPairs(resumes, jd) ==
    [i \in 1..Len(resumes) |-> [resume_name |-> resumes[i].name, jd_name |-> jd.name,
                                 jd_content |-> jd.content]]
CandidatePairs(resume_name, jds) ==
    [i \in 1..Len(jds) |-> [resume_name |-> resume_name, jd_name |-> jds[i].name,
                             jd_content |-> jds[i].content]]

\* the items of the loop, in loop order
LoopItems(v, pairs, replies) ==
    [i \in 1..Len(pairs) |->
        MatchItem(v, pairs[i].resume_name, pairs[i].jd_name, pairs[i].jd_content, replies[i])]

\* the loop of the database-backed dashboards saves each item as it is built
RECURSIVE SaveItems(_, _, _, _, _, _)
SaveItems(d, conn, items, user_role, now, id) ==
    IF items = <<>> THEN d
    ELSE SaveItems(save_match_result(d, conn, Head(items), user_role, now, id),
                   conn, Tail(items), user_role, now + 1, id + 1)

\* results_with_score.sort(key=lambda x: x['numeric_score'], reverse=True)
RECURSIVE SortByScoreDesc(_)
SortByScoreDesc(s) ==
    IF Len(s) <= 1 THEN s
    ELSE LET rest == SortByScoreDesc(Tail(s))
             x    == Head(s)
             pos  == Cardinality({i \in 1..Len(rest) :
                                     rest[i].numeric_score > x.numeric_score})
         IN  SubSeq(rest, 1, pos) \o <<x>> \o SubSeq(rest, pos + 1, Len(rest))

\* current_rank = 1; current_score = -1
\* for i, item in enumerate(results_with_score): ... item['rank'] = current_rank
RECURSIVE RankFrom(_, _, _, _)
RankFrom(s, i, current_rank, current_score) ==
    IF i > Len(s) THEN <<>>
    ELSE LET bump == s[i].numeric_score > current_score
             rank == IF bump THEN i ELSE current_rank
             sc   == IF bump THEN s[i].numeric_score ELSE current_score
         IN  <<Del(Put(s[i], "rank", rank), "numeric_score")>>
             \o RankFrom(s, i + 1, rank, sc)

\* the loop keeping nothing but the failure once a name is not defined
RECURSIVE UntilNameError_DropsEarlier(_, _)
UntilNameError_DropsEarlier(items, replies) ==
    IF items = <<>> THEN <<>>
    ELSE IF Head(replies).kind = "nameerror" THEN <<Head(items)>>
    ELSE LET rest == UntilNameError_DropsEarlier(Tail(items), Tail(replies))
         IN  IF \E k \in 1..Len(replies) : replies[k].kind = "nameerror"
             THEN rest ELSE <<Head(items)>> \o rest

\* the portal candidate loop stops at a NameError, after appending its item
RECURSIVE UntilNameError(_, _)
UntilNameError(items, replies) ==
    IF items = <<>> THEN <<>>
    ELSE IF Head(replies).kind = "nameerror" THEN <<Head(items)>>
    ELSE <<Head(items)>> \o UntilNameError(Tail(items), Tail(replies))

NoReply == <<>>

\* no operation has been called yet
NoCall == [op |-> "none"]

\* the call of evaluate_jd_fit that ended the loop: what it sent to the LLM and
\* how it ended
LastCall(pairs, replies) ==
    LET job_description == pairs[Len(pairs)].jd_content
    IN  [op |-> "evaluate_jd_fit", job_description |-> job_description,
         llm |-> IF strip(job_description) = <<>> THEN <<>>
                 ELSE <<[op |-> "evaluate_jd_fit", text |-> job_description]>>,
         out |-> evaluate_jd_fit(job_description, replies[Len(pairs)])]

\* the JD the selectbox holds: any JD of the list
Elems(seq) == {seq[i] : i \in 1..Len(seq)}

\* Pragyanaiapp.py admin_dashboard: "Run Match Analysis"
RunMatchAnalysisAppAdmin(replySet) ==
    /\ variant = "app_admin"
    /\ fit_reply = NoReply
    /\ clock + Len(ss.resumes_to_analyze) <= MaxClock
    /\ \E jd \in Elems(ss.admin_jd_list), replies \in [1..Len(ss.resumes_to_analyze) -> replySet] :
          IF ~connected \/ jd.content = <<>> \/ ss.resumes_to_analyze = <<>>
          THEN UNCHANGED <<fit_reply, ss, db, clock, next_id, ret>>
          ELSE LET pairs == AdminPairs(ss.resumes_to_analyze, jd)
                   items == LoopItems(variant, pairs, replies)
                   d     == SaveItems(db, connected, items, "admin", clock, next_id)
               IN  /\ db' = d
                   /\ ss' = [ss EXCEPT !.admin_match_results =
                                           get_match_results(db', connected, "admin")]
                   /\ clock' = clock + Len(pairs)
                   /\ next_id' = next_id + Len(pairs)
                   /\ fit_reply' = Used(variant, pairs, replies)
                   /\ ret' = LastCall(pairs, replies)
    /\ UNCHANGED <<env, variant, connected, manager>>

\* Pragyanaiapp.py candidate_dashboard: "Run Batch Match Against N JDs"
RunBatchMatchAppCandidate(replySet) ==
    /\ variant = "app_candidate"
    /\ fit_reply = NoReply
    /\ ss.parsed # <<>>
    /\ ss.candidate_jd_list # <<>>
    /\ clock + Len(ss.candidate_jd_list) <= MaxClock
    /\ \E replies \in [1..Len(ss.candidate_jd_list) -> replySet] :
          IF ~connected
          THEN UNCHANGED <<fit_reply, ss, db, clock, next_id, ret>>
          ELSE LET resume_name == IF "name" \in DOMAIN ss.parsed THEN ss.parsed.name
                                  ELSE PyStr(<<"Uploaded Resume">>)
                   pairs == CandidatePairs(resume_name, ss.candidate_jd_list)
                   items == LoopItems(variant, pairs, replies)
                   d     == SaveItems(db, connected, items, "candidate", clock, next_id)
               IN  /\ db' = d
                   /\ ss' = [ss EXCEPT !.candidate_match_results =
                                           get_match_results(db', connected, "candidate")]
                   /\ clock' = clock + Len(pairs)
                   /\ next_id' = next_id + Len(pairs)
                   /\ fit_reply' = Used(variant, pairs, replies)
                   /\ ret' = LastCall(pairs, replies)
    /\ UNCHANGED <<env, variant, connected, manager>>

\* the names the multiselect starts with: every resume of the list
AllNames(resumes) == {{resumes[i].name : i \in 1..Len(resumes)}}

\* pragyanai-jobportal/admin_dashboard.py: the click on "Run Match Analysis on
\* N Selected Resume(s)" with one of the given selections of resume names
RunMatchAnalysisOnSelected(replySet, selections) ==
    /\ variant = "portal_admin"
    /\ fit_reply = NoReply
    /\ ss.admin_jd_list # <<>>
    /\ \E jd \in Elems(ss.admin_jd_list), selected_resume_names \in selections :
       \E resumes_to_match \in {SelectSeq(ss.resumes_to_analyze,
                                          LAMBDA r : r.name \in selected_resume_names)} :
       \E replies \in [1..Len(resumes_to_match) -> replySet] :
          IF jd.content = <<>> \/ resumes_to_match = <<>>
          THEN /\ ss' = [ss EXCEPT !.admin_match_results = <<>>]
               /\ UNCHANGED fit_reply
          ELSE /\ ss' = [ss EXCEPT !.admin_match_results =
                            LoopItems(variant, AdminPairs(resumes_to_match, jd), replies)]
               /\ fit_reply' = replies
    /\ UNCHANGED <<env, variant, connected, db, clock, next_id, manager>>

\* the click with the selection left as it starts
RunMatchAnalysisPortalAdmin(replySet) ==
    /\ RunMatchAnalysisOnSelected(replySet, AllNames(ss.resumes_to_analyze))
    /\ UNCHANGED ret

\* is_resume_parsed of pragyanai-jobportal/candidate_dashboard.py
is_resume_parsed ==
    \/ ("name" \in DOMAIN ss.parsed /\ bool(ss.parsed.name))
    \/ ss.full_text # <<>>

\* pragyanai-jobportal/candidate_dashboard.py: "Run Match Analysis on N Selected JD(s)"
RunMatchAnalysisPortalCandidate(replySet) ==
    /\ variant = "portal_candidate"
    /\ fit_reply = NoReply
    /\ is_resume_parsed
    /\ ss.candidate_jd_list # <<>>
    /\ \E replies \in [1..Len(ss.candidate_jd_list) -> replySet] :
          LET resume_name == IF "name" \in DOMAIN ss.parsed THEN ss.parsed.name
                             ELSE PyStr(<<"Uploaded Resume">>)
              items == LoopItems(variant, CandidatePairs(resume_name, ss.candidate_jd_list),
                                 replies)
              results_with_score == SortByScoreDesc(UntilNameError(items, replies))
          IN  /\ ss' = [ss EXCEPT !.candidate_match_results =
                                      RankFrom(results_with_score, 1, 1, -1)]
              /\ fit_reply' = replies
    /\ UNCHANGED <<env, variant, connected, db, clock, next_id, manager, ret>>

(***************************************************************************)
(* SpecFit: one analysis run of one resume against one job description,    *)
(* in each of the four match loops                                         *)
(***************************************************************************)
\* how the MongoDB server answers when the session connects
StoreStates == {"ok", "connection_fails", "ping_fails", "no_default_database"}

\* the environment of a session that got past the start of the script: both
\* settings present, the server answering or not
SessionEnv(conn) ==
    [GROQ_API_KEY |-> TRUE, MONGODB_URI |-> TRUE,
     store |-> IF conn THEN "ok" ELSE "connection_fails"]

EmptySession ==
    [parsed |-> <<>>, full_text |-> <<>>, excel_data |-> <<>>, qa_answer |-> <<>>,
     iq_output |-> <<>>,
     admin_jd_list |-> <<>>, candidate_jd_list |-> <<>>, resumes_to_analyze |-> <<>>,
     admin_match_results |-> <<>>, candidate_match_results |-> <<>>, vendor_list |-> <<>>]

SomeParsed == [name |-> PyStr(<<"Ann">>), skills |-> PyList(<<"Python">>)]
SomeJdTexts == {<<" ", "\n">>, <<"Python", " ", "developer">>}

InitFit ==
    /\ variant \in Variants
    /\ fit_reply = NoReply
    /\ connected \in (IF variant \in AppVariants THEN BOOLEAN ELSE {FALSE})
    /\ db = EmptyDb
    /\ clock = 0
    /\ next_id = 1
    /\ manager = "Pragyanaiapp"
    /\ ret = NoCall
    /\ \E content \in (IF variant \in AppVariants THEN SomeJdTexts
                        ELSE SomeJdTexts \ {<<" ", "\n">>}) :
          LET jd == [name |-> "JD1", content |-> content]
          IN  ss = [EmptySession EXCEPT
                      !.parsed = SomeParsed,
                      !.full_text = <<"Ann", "\n", "Python">>,
                      !.admin_jd_list = <<jd>>,
                      !.candidate_jd_list = <<jd>>,
                      !.resumes_to_analyze = <<[name |-> PyStr(<<"Ann">>),
                                                 parsed |-> SomeParsed]>>]
    /\ env = SessionEnv(connected)

NextFit ==
    \/ RunMatchAnalysisAppAdmin(FitReplies(variant))
    \/ RunBatchMatchAppCandidate(FitReplies(variant))
    \/ RunMatchAnalysisPortalAdmin(FitReplies(variant))
    \/ RunMatchAnalysisPortalCandidate(FitReplies(variant))

SpecFit == InitFit /\ [][NextFit]_vars

\* every MatchResult a run has stored or shown
Produced ==
    {db["admin_match_results"][i] : i \in 1..Len(db["admin_match_results"])}
    \cup {db["candidate_match_results"][i] : i \in 1..Len(db["candidate_match_results"])}
    \cup {ss.admin_match_results[i] : i \in 1..Len(ss.admin_match_results)}
    \cup {ss.candidate_match_results[i] : i \in 1..Len(ss.candidate_match_results)}

(***************************************************************************)
(* Claims about the match results (checked under SpecFit)                  *)
(***************************************************************************)
FourFields == {"overall_score", "skills_percent", "experience_percent", "education_percent"}

\* the run has evaluated its pair and the evaluation returned a text
Evaluated == fit_reply # NoReply /\ fit_reply[1].kind \in {"text", "nocall"}
\* the run has evaluated its pair and the evaluation raised
Failed    == fit_reply # NoReply /\ fit_reply[1].kind \in {"raise", "nameerror"}
\* the LLM wrote a text for the pair
Wrote     == fit_reply # NoReply /\ fit_reply[1].kind = "text"
Written   == fit_reply[1].text

\* C1, as claimed: no MatchResult holds a digit string in one of its four
\* fields and "N/A" in another.
C1_NoMixedResult ==
    \A r \in Produced :
        ~ \E f, g \in FourFields \cap DOMAIN r : isdigit(r[f]) /\ r[g] = NA

\* C1, amended: when the fit evaluation returned, each of the four fields of
\* the MatchResult is, on its own, "N/A" or a non-empty digit string.
C1_EachFieldNaOrDigits ==
    Evaluated =>
        \A r \in Produced : \A f \in FourFields :
            f \in DOMAIN r /\ (r[f] = NA \/ isdigit(r[f]))

\* C1: a result with a digit overall score and an "N/A" skills percentage
C1_Witness ==
    Evaluated /\ \E r \in Produced : isdigit(r.overall_score) /\ r.skills_percent = NA

\* the label form the LLM wrote for the field f
WrittenFor(f) ==
    CASE f = "skills_percent"     -> Written.sk
      [] f = "experience_percent" -> Written.ex
      [] f = "education_percent"  -> Written.ed

SectionFields == FourFields \ {"overall_score"}

\* C2: a section percentage that is not "N/A" comes from the label line written
\* between the section marker and "Strengths/Matches:"; without the marker (or
\* without the closing "Strengths/Matches:"), or with the label carrying a
\* percentage only outside the block, the field is "N/A".
C2_OnlyInsideBlock ==
    Wrote =>
        \A r \in Produced : \A f \in SectionFields :
            r[f] # NA =>
                /\ Written.mark /\ Written.str
                /\ WrittenFor(f).style \in {"plain", "bracket"}
                /\ r[f] = WrittenFor(f).run

\* C2: percentages are quoted outside the block, the marker is missing, and a
\* result with "N/A" in the three section fields has been produced
C2_Witness ==
    /\ Wrote /\ Written.stray # "none" /\ ~Written.mark /\ Written.sk.style = "plain"
    /\ \E r \in Produced : \A f \in SectionFields : r[f] = NA

\* C3, as claimed: when the fit evaluation of the pair raises, the MatchResult
\* has all four fields present and equal to "Error".
C3_AllFourError ==
    Failed =>
        \A r \in Produced : \A f \in FourFields : f \in DOMAIN r /\ r[f] = Error

FollowsTemplate ==
    /\ Wrote /\ Written.ov.style = "plain" /\ Written.stray = "none"
    /\ Written.mark /\ Written.str
    /\ \A f \in SectionFields : WrittenFor(f).style = "plain"

\* C6: for a reply that follows the template, the four fields are exactly the
\* digit runs written for the overall score and the three percentages.
C6_TemplateRoundTrip ==
    FollowsTemplate =>
        \A r \in Produced :
            /\ r.overall_score = Written.ov.run
            /\ \A f \in SectionFields : r[f] = WrittenFor(f).run

\* C6: a template reply with score 10 and percentages 80, 7, 80 has been extracted
C6_Witness ==
    /\ FollowsTemplate /\ Written.ov.run = <<"1", "0">>
    /\ \E r \in Produced : /\ r.overall_score = <<"1", "0">>
                           /\ r.skills_percent = <<"8", "0">>
                           /\ r.experience_percent = <<"7">>
                           /\ r.education_percent = <<"8", "0">>

\* C22: in every variant, when the overall line holds a run of non-digit
\* characters (markdown asterisks) between "Overall Fit Score:" and the
\* digits, followed by "/10", every result carries the digits as its overall
\* score.
C22_OverallCapturedAfterNonDigits ==
    (Wrote /\ Written.ov.style = "star") =>
        \A r \in Produced : r.overall_score = Written.ov.run

(***************************************************************************)
(* Uploaded files and the content extractor                                *)
(***************************************************************************)
\* str.startswith(prefix), word by word
startswith(text, prefix) ==
    Len(text) >= Len(prefix) /\ SubSeq(text, 1, Len(prefix)) = prefix

\* what a file holds: text, nothing but blanks, or bytes its reader raises on
Bodies == {"text", "blank", "unreadable"}

\* an uploaded file; its name is stem + ext
Files(exts) == [stem : {"cv"}, ext : exts, body : Bodies]

FileText  == <<"Python", " ", "developer">>
BlankText == <<" ", "\n">>

\* str.lower() of the extensions in use
lower(ext) == IF ext = ".PDF" THEN ".pdf" ELSE ext

\* def get_file_type(file_path)
get_file_type(file) ==
    LET ext == lower(file.ext)
    IN  IF ext = ".pdf" THEN "pdf" ELSE IF ext = ".docx" THEN "docx" ELSE "txt"

ErrorPdf ==
    <<"Error", ":", " ", "PDF extraction failed. The file might be a scanned image without searchable text or is empty.">>
ErrorDocx ==
    <<"Error", ":", " ", "DOCX content extraction failed. The file appears to be empty.">>
ErrorUnsupported == <<"Error", ":", " ", "Unsupported file type.">>
FatalExtractionError ==
    <<"Fatal", " ", "Extraction", " ", "Error", ":", " ",
      "Failed to read file content. Error details:", " ", "e">>

\* def extract_content(file_type, file_path)
extract_content(file_type, file) ==
    IF file_type \notin {"pdf", "docx", "txt"} THEN ErrorUnsupported
    ELSE IF file.body = "unreadable" THEN FatalExtractionError
    ELSE CASE file_type = "pdf"  -> IF file.body = "blank" THEN ErrorPdf
                                    ELSE FileText \o <<"\n">>
           [] file_type = "docx" -> IF file.body = "blank" THEN ErrorDocx ELSE FileText
           [] file_type = "txt"  -> IF file.body = "blank" THEN BlankText ELSE FileText

(***************************************************************************)
(* The LLM gateway                                                         *)
(***************************************************************************)
question_section_options == <<"skills", "experience", "certifications", "education", "projects">>

\* key.replace("_", " ").title() of the keys in use
title(key) ==
    CASE key = "name"           -> "Name"
      [] key = "skills"         -> "Skills"
      [] key = "experience"     -> "Experience"
      [] key = "certifications" -> "Certifications"
      [] key = "education"      -> "Education"
      [] key = "projects"       -> "Projects"
      [] key = "degree"         -> "Degree"

\* JSON objects the LLM writes for a resume: sections that are filled, empty in
\* each way, null, or left out
FullResume ==
    [name |-> PyStr(<<"Ann">>), skills |-> PyList(<<"Python", "SQL">>),
     experience |-> PyList(<<>>), certifications |-> PyDict(<<>>),
     education |-> PyStr(<<" ">>)]
SparseResume ==
    [skills |-> PyStr(<<>>), education |-> PyDict([degree |-> "BSc"]), projects |-> PyNone]
EmptyObject == [k \in {} |-> PyNone]

\* the JSON texts of these objects as the LLM writes them, word by word, each
\* brace a word of its own
JsonTexts ==
    {[parsed |-> FullResume,
      text |-> <<"{", "\"name\": \"Ann\", \"skills\": [\"Python\", \"SQL\"], \"experience\": [],",
                 " ", "\"certifications\":", " ", "{", "}", ",", " ",
                 "\"education\": \" \"", "}">>],
     [parsed |-> SparseResume,
      text |-> <<"{", "\"skills\": \"\",", " ", "\"education\":", " ", "{",
                 "\"degree\": \"BSc\"", "}", ",", " ", "\"projects\": null", "}">>],
     [parsed |-> EmptyObject, text |-> <<"{", "}">>]}

JsonText(parsed) == (CHOOSE j \in JsonTexts : j.parsed = parsed).text

\* the response laid out: prose, an opening fence, the JSON text, a closing
\* fence, prose (<fence> stands for the three backticks)
FenceOpen(fence) ==
    CASE fence = "json" -> <<"<fence>json", "\n">>
      [] fence = "bare" -> <<"<fence>", "\n">>
      [] OTHER          -> <<>>
FenceClose(fence) == IF fence = "none" THEN <<>> ELSE <<"\n", "<fence>">>
Layout(before, fence, json, after) ==
    before \o FenceOpen(fence) \o json \o FenceClose(fence) \o after

\* what client.chat.completions.create does for parse_with_llm: a JSON object
\* (fenced or not), a text that is no JSON, or an exception
ParseReplies ==
    {[kind |-> "text", text |-> Layout(<<>>, "json", JsonText(FullResume), <<"\n">>)],
     [kind |-> "text", text |-> JsonText(SparseResume)],
     [kind |-> "text", text |-> JsonText(EmptyObject)],
     [kind |-> "text", text |-> <<"Sorry", "\n">>], [kind |-> "raise"]}

\* what it does for a question or a set of interview questions
TextReplies == {[kind |-> "text", text |-> <<" ", "Yes", "\n">>], [kind |-> "raise"]}

\* the items of a list, one per line, as json.dumps(v, indent=2) lays them out
RECURSIVE JsonItems(_)
JsonItems(items) ==
    IF items = <<>> THEN <<>>
    ELSE <<" ", " ", "\"", Head(items), "\"">>
         \o (IF Len(items) > 1 THEN <<",">> ELSE <<>>) \o <<"\n">> \o JsonItems(Tail(items))

\* json.dumps(v, indent=2) of a list of strings or of a dict of at most one key
json_dumps(v) ==
    IF v.type = "list"
    THEN IF v.value = <<>> THEN <<"[", "]">>
         ELSE <<"[", "\n">> \o JsonItems(v.value) \o <<"]">>
    ELSE IF DOMAIN v.value = {} THEN <<"{", "}">>
         ELSE LET k == CHOOSE key \in DOMAIN v.value : TRUE
              IN  <<"{", "\n", " ", " ", "\"", k, "\"", ":", " ", "\"", v.value[k], "\"", "\n", "}">>

\* the lines of the markdown view for one value
RECURSIVE MarkdownItems(_)
MarkdownItems(items) ==
    IF items = <<>> THEN <<>>
    ELSE (IF Head(items) # "" THEN <<"- ", Head(items), "\n">> ELSE <<>>)
         \o MarkdownItems(Tail(items))

MarkdownValue(v) ==
    CASE v.type = "list" -> MarkdownItems(v.value)
      [] v.type = "dict" -> LET k == CHOOSE key \in DOMAIN v.value : TRUE
                            IN  IF v.value[k] # "" THEN <<"  - ", title(k), ": ", v.value[k], "\n">>
                                ELSE <<>>
      [] OTHER           -> <<"  ">> \o v.value \o <<"\n">>

\* the keys of a parsed resume, in the order the LLM wrote them
KeyOrder == <<"name", "skills", "experience", "certifications", "education", "projects">>

RECURSIVE MarkdownFrom(_, _)
MarkdownFrom(parsed, i) ==
    IF i > Len(KeyOrder) THEN <<>>
    ELSE LET k == KeyOrder[i]
         IN  (IF k \in DOMAIN parsed /\ bool(parsed[k])
              THEN <<"**", title(k), "**", ":", "\n">> \o MarkdownValue(parsed[k]) \o <<"\n">>
              ELSE <<>>)
             \o MarkdownFrom(parsed, i + 1)

\* json.loads(s) of the texts a response can be cut to: the JSON texts are the
\* ones of JsonTexts; any other cut has words outside an object or none at all
json_loads(s) ==
    IF \E j \in JsonTexts : j.text = s
    THEN Returned((CHOOSE j \in JsonTexts : j.text = s).parsed)
    ELSE Raised("JSONDecodeError")

\* json_str[len('```json'):] if json_str.startswith('```json')
lstrip_fence(s) == IF startswith(s, <<"<fence>json">>) THEN Tail(s) ELSE s

\* json_str[:-len('```')] if json_str.endswith('```')
rstrip_fence(s) == IF s # <<>> /\ s[Len(s)] = "<fence>" THEN SubSeq(s, 1, Len(s) - 1) ELSE s

\* str.find and str.rfind, counting words from 1: 0 when the word is not there
find(s, w) ==
    IF \E i \in 1..Len(s) : s[i] = w
    THEN CHOOSE i \in 1..Len(s) : s[i] = w /\ \A h \in 1..(i - 1) : s[h] # w
    ELSE 0
rfind(s, w) ==
    IF \E i \in 1..Len(s) : s[i] = w
    THEN CHOOSE i \in 1..Len(s) : s[i] = w /\ \A h \in (i + 1)..Len(s) : s[h] # w
    ELSE 0

\* the cut ending at the first closing brace
json_substring_FirstClosing(s) ==
    IF find(s, "{") # 0 /\ find(s, "}") > find(s, "{")
    THEN SubSeq(s, find(s, "{"), find(s, "}"))
    ELSE s

\* json_str[json_start:json_end] if both braces are found in this order
json_substring(s) ==
    IF find(s, "{") # 0 /\ rfind(s, "}") > find(s, "{")
    THEN SubSeq(s, find(s, "{"), rfind(s, "}"))
    ELSE s

\* the "Robust JSON extraction": from the stripped content to the text parsed
json_str(content) == json_substring(strip(rstrip_fence(lstrip_fence(content))))

\* parsed = json.loads(json_str), or the error dict of the except clause
loads_or_error(content, loaded) ==
    IF loaded.kind = "returned" THEN loaded.value
    ELSE [error |-> <<"JSON decoding error from LLM. LLM returned malformed JSON. Error: ", "e">>,
          raw_output |-> content]

\* the try block of parse_with_llm
parsed_from(reply) ==
    IF reply.kind = "raise"
    THEN [error |-> <<"LLM API interaction error: ", "e">>,
          raw_output |-> <<"No LLM response due to API error.">>]
    ELSE loads_or_error(strip(reply.text), json_loads(json_str(strip(reply.text))))

\* the end of parse_with_llm: the value for the return type asked for
return_as(return_type, parsed) ==
    CASE return_type = "json" -> parsed
      [] return_type = "markdown" ->
           IF "error" \in DOMAIN parsed
           THEN <<"**Error:**", " ">> \o parsed.error
                \o <<"\n", "Raw output:", "\n", "<fence>", "\n">>
                \o (IF "raw_output" \in DOMAIN parsed THEN parsed.raw_output ELSE <<>>)
                \o <<"\n", "<fence>">>
           ELSE MarkdownFrom(parsed, 1)
      [] OTHER -> [error |-> <<"Invalid return_type">>]

\* def parse_with_llm(text, return_type='json'): what it sent to the LLM and what
\* it returned (st.cache_data keeps the result of a call; every call here is
\* the first with its arguments)
parse_with_llm(text, return_type, reply) ==
    IF startswith(text, <<"Error">>)
    THEN [llm |-> <<>>, out |-> Returned([error |-> text, raw_output |-> <<>>])]
    ELSE [llm |-> <<[op |-> "parse_with_llm", text |-> text]>>,
          out |-> Returned(return_as(return_type, parsed_from(reply)))]

\* the end of parse_and_store_resume: the resume is saved for the admin and
\* the result dict is built; save_resume keeps resume names unique, so find_one
\* has at most one document to return
StoreParsed(d, conn, file_name_key, now, id, text, parsed, name, llm) ==
    LET existing == CHOOSE i \in find_one(MatchingResumes(d["admin_resumes"], name)) : TRUE
        s == IF file_name_key = "admin_analysis" /\ conn
             THEN save_resume("Pragyanaiapp", d, conn,
                              [name |-> name, parsed |-> parsed, full_text |-> text],
                              now, id, existing)
             ELSE [db |-> d, result |-> None]
    IN  [db |-> s.db, saved |-> s.result, llm |-> llm,
         result |-> [parsed |-> parsed, full_text |-> text,
                     excel_data |-> IF file_name_key = "single_resume_candidate"
                                    THEN <<"xlsx">> ELSE <<>>,
                     name |-> name]]

\* parse_and_store_resume from the call of parse_with_llm on
AfterParse(d, conn, uploaded_file, file_name_key, now, id, text, parsed, llm) ==
    IF DOMAIN parsed = {} \/ "error" \in DOMAIN parsed
    THEN [db |-> d, saved |-> None, llm |-> llm,
          result |-> [error |-> IF "error" \in DOMAIN parsed THEN parsed.error
                                ELSE <<"Unknown parsing error">>,
                      full_text |-> text]]
    ELSE StoreParsed(d, conn, file_name_key, now, id, text, parsed,
                     IF "name" \in DOMAIN parsed THEN parsed.name
                     ELSE PyStr(<<uploaded_file.stem>>),
                     llm)

\* parse_and_store_resume from the extracted text on
AfterExtract(d, conn, uploaded_file, file_name_key, reply, now, id, text) ==
    IF startswith(text, <<"Error">>)
    THEN [db |-> d, saved |-> None, llm |-> <<>>,
          result |-> [error |-> text, full_text |-> text]]
    ELSE AfterParse(d, conn, uploaded_file, file_name_key, now, id, text,
                    parse_with_llm(text, "json", reply).out.value,
                    parse_with_llm(text, "json", reply).llm)

\* def parse_and_store_resume(uploaded_file, file_name_key='default')
parse_and_store_resume(d, conn, uploaded_file, file_name_key, reply, now, id) ==
    AfterExtract(d, conn, uploaded_file, file_name_key, reply, now, id,
                 extract_content(get_file_type(uploaded_file), uploaded_file))

\* def qa_on_resume(question)
qa_on_resume(parsed_json, full_text, question, reply) ==
    [llm |-> <<[op |-> "qa_on_resume", text |-> full_text, question |-> question]>>,
     out |-> IF reply.kind = "raise" THEN Raised("Exception")
             ELSE Returned(strip(reply.text))]

NoContentFound(section_title) ==
    <<"No significant content found for the '", section_title,
      "' section in the parsed resume. Please select a section with relevant data to generate questions.">>

\* str(v) of a value that is no string, list or dict
py_str(v) == IF v.type = "NoneType" THEN <<"None">> ELSE v.value

\* def generate_interview_questions(parsed_json, section)
generate_interview_questions(parsed_json, section, reply) ==
    LET section_title == title(section)
        got == IF section \in DOMAIN parsed_json THEN parsed_json[section] ELSE PyStr(<<>>)
        section_content ==
            IF got.type \in {"list", "dict"} THEN json_dumps(got)
            ELSE IF got.type # "str" THEN py_str(got)
            ELSE got.value
    IN  IF strip(section_content) = <<>>
        THEN [llm |-> <<>>, out |-> Returned(NoContentFound(section_title))]
        ELSE [llm |-> <<[op |-> "generate_interview_questions", text |-> section_content]>>,
              out |-> IF reply.kind = "raise" THEN Raised("Exception")
                      ELSE Returned(strip(reply.text))]

(***************************************************************************)
(* The handlers of Pragyanaiapp.py that extract files and call the gateway *)
(***************************************************************************)
\* the extensions each st.file_uploader lets through
AdminResumeExts     == {".pdf", ".PDF", ".docx", ".txt", ".json"}
CandidateResumeExts == {".pdf", ".docx"}
JdExts              == {".pdf", ".docx", ".txt"}

RoleOf(v) == IF v = "app_admin" THEN "admin" ELSE "candidate"

\* admin_dashboard: "Load and Parse Resume(s) for Analysis", one file
LoadAndParseResumes ==
    /\ variant = "app_admin"
    /\ connected
    /\ clock < MaxClock
    /\ \E file \in Files(AdminResumeExts), reply \in ParseReplies :
          \E r \in {parse_and_store_resume(db, connected, file, "admin_analysis", reply,
                                           clock, next_id)} :
              /\ db' = r.db
              /\ clock' = clock + 1
              /\ next_id' = Fresh(r.saved, next_id)
              /\ ss' = [ss EXCEPT !.resumes_to_analyze = get_resumes(r.db, connected)]
              /\ ret' = [op |-> "parse_and_store_resume", file |-> file, llm |-> r.llm,
                         out |-> Returned(r.result)]
    /\ UNCHANGED <<env, variant, fit_reply, connected, manager>>

\* candidate_dashboard: "Parse Resume"
ParseResume ==
    /\ variant = "app_candidate"
    /\ clock < MaxClock
    /\ \E file \in Files(CandidateResumeExts), reply \in ParseReplies :
          \E r \in {parse_and_store_resume(db, connected, file, "single_resume_candidate",
                                           reply, clock, next_id)} :
              /\ ss' = IF "error" \notin DOMAIN r.result
                       THEN [ss EXCEPT !.parsed = r.result.parsed,
                                       !.full_text = r.result.full_text,
                                       !.excel_data = r.result.excel_data]
                       ELSE ss
              /\ ret' = [op |-> "parse_and_store_resume", file |-> file, llm |-> r.llm,
                         out |-> Returned(r.result)]
    /\ clock' = clock + 1
    /\ UNCHANGED <<env, variant, fit_reply, connected, db, next_id, manager>>

\* admin_dashboard and candidate_dashboard: "Add JD(s) from File", one file
AddJdFromFile ==
    /\ connected
    /\ clock < MaxClock
    /\ \E file \in Files(JdExts) :
          LET user_role == RoleOf(variant)
              jd_text   == extract_content(get_file_type(file), file)
              jd_data   == [name |-> <<file.stem, file.ext>>, content |-> jd_text,
                            source |-> "file"]
          IN  \E existing_jd \in find_one(MatchingJds(db[JdsOf(user_role)], jd_data)) :
                 LET r == IF ~startswith(jd_text, <<"Error">>)
                          THEN save_jd(db, connected, jd_data, user_role, clock, next_id,
                                       existing_jd)
                          ELSE [db |-> db, result |-> None]
                 IN  /\ db' = r.db
                     /\ clock' = clock + 1
                     /\ next_id' = Fresh(r.result, next_id)
                     /\ ss' = IF user_role = "admin"
                              THEN [ss EXCEPT !.admin_jd_list = get_jds(r.db, connected, "admin")]
                              ELSE [ss EXCEPT !.candidate_jd_list =
                                                  get_jds(r.db, connected, "candidate")]
                     /\ ret' = [op |-> "extract_content", file |-> file, llm |-> <<>>,
                                out |-> Returned(jd_text)]
    /\ UNCHANGED <<env, variant, fit_reply, connected, manager>>

\* candidate_dashboard, "Resume Parsing" tab: the markdown view
ShowParsedMarkdown ==
    /\ variant = "app_candidate"
    /\ clock < MaxClock
    /\ ss.full_text # <<>>
    /\ "error" \notin DOMAIN ss.parsed
    /\ \E reply \in ParseReplies :
          LET p == parse_with_llm(ss.full_text, "markdown", reply)
          IN  ret' = [op |-> "parse_with_llm", text |-> ss.full_text, llm |-> p.llm,
                      out |-> p.out]
    /\ clock' = clock + 1
    /\ UNCHANGED <<env, variant, fit_reply, ss, connected, db, next_id, manager>>

\* candidate_dashboard, "Resume Chatbot" tab: "Get Answer"
GetAnswer ==
    /\ variant = "app_candidate"
    /\ clock < MaxClock
    /\ ss.full_text # <<>>
    /\ \E question \in {<<"Which", " ", "skills?">>}, reply \in TextReplies :
          LET r == qa_on_resume(ss.parsed, ss.full_text, question, reply)
          IN  /\ ss' = [ss EXCEPT !.qa_answer =
                           IF r.out.kind = "returned" THEN r.out.value
                           ELSE <<"Could not generate an answer.">>]
              /\ ret' = [op |-> "qa_on_resume", question |-> question, llm |-> r.llm,
                         out |-> r.out]
    /\ clock' = clock + 1
    /\ UNCHANGED <<env, variant, fit_reply, connected, db, next_id, manager>>

\* candidate_dashboard, "Interview Prep" tab: "Generate Interview Questions"
GenerateInterviewQuestions ==
    /\ variant = "app_candidate"
    /\ clock < MaxClock
    /\ DOMAIN ss.parsed # {}
    /\ "error" \notin DOMAIN ss.parsed
    /\ \E k \in 1..Len(question_section_options), reply \in TextReplies :
          LET section_choice == question_section_options[k]
              r == generate_interview_questions(ss.parsed, section_choice, reply)
          IN  /\ ss' = [ss EXCEPT !.iq_output =
                           IF r.out.kind = "returned" THEN r.out.value
                           ELSE <<"Error generating questions.">>]
              /\ ret' = [op |-> "generate_interview_questions", parsed_json |-> ss.parsed,
                         section |-> section_choice, llm |-> r.llm, out |-> r.out]
    /\ clock' = clock + 1
    /\ UNCHANGED <<env, variant, fit_reply, connected, db, next_id, manager>>

(***************************************************************************)
(* SpecGateway: one session of Pragyanaiapp.py, as admin or as candidate,  *)
(* uploading files and calling the four gateway operations                 *)
(***************************************************************************)
SomeFitText ==
    [ov |-> [style |-> "plain", run |-> <<"1">>], stray |-> "none", mark |-> TRUE,
     sk |-> [style |-> "plain", run |-> <<"7">>], ex |-> [style |-> "plain", run |-> <<"7">>],
     ed |-> [style |-> "plain", run |-> <<"7">>], str |-> TRUE]

GatewayFitReplies == {[kind |-> "text", text |-> SomeFitText], [kind |-> "raise"]}

InitGateway ==
    /\ variant \in AppVariants
    /\ fit_reply = NoReply
    /\ ss = EmptySession
    /\ connected \in BOOLEAN
    /\ db = EmptyDb
    /\ clock = 0
    /\ next_id = 1
    /\ manager = "Pragyanaiapp"
    /\ ret = NoCall
    /\ env = SessionEnv(connected)

NextGateway ==
    \/ LoadAndParseResumes
    \/ ParseResume
    \/ AddJdFromFile
    \/ ShowParsedMarkdown
    \/ GetAnswer
    \/ GenerateInterviewQuestions
    \/ RunMatchAnalysisAppAdmin(GatewayFitReplies)
    \/ RunBatchMatchAppCandidate(GatewayFitReplies)

SpecGateway == InitGateway /\ [][NextGateway]_vars

(***************************************************************************)
(* Claims about the extractor's callers and the gateway (SpecGateway)      *)
(***************************************************************************)
\* a sentinel of extract_content: "Error: ..." or "Fatal Extraction Error: ..."
IsSentinel(text) ==
    \/ startswith(text, <<"Error", ":">>)
    \/ startswith(text, <<"Fatal", " ", "Extraction", " ", "Error", ":">>)

\* the texts the last operation sent to the LLM as resume text
SentAsResume == {ret.llm[i].text : i \in {j \in 1..Len(ret.llm) : ret.llm[j].op = "parse_with_llm"}}

\* C4: a sentinel error string of extract_content, with either prefix, is an
\* error value to every caller: it is never sent to the LLM as resume text and
\* never stored as a resume or as the content of a JD.
C4_SentinelIsAnError ==
    /\ "llm" \in DOMAIN ret => \A text \in SentAsResume : ~IsSentinel(text)
    /\ \A i \in 1..Len(db["admin_resumes"]) : ~IsSentinel(db["admin_resumes"][i].full_text)
    /\ \A user_role \in Roles : \A i \in 1..Len(db[JdsOf(user_role)]) :
          ~IsSentinel(db[JdsOf(user_role)][i].content)

\* the named section is missing, or is an empty list, dict or string
SectionEmpty(parsed_json, section) ==
    \/ section \notin DOMAIN parsed_json
    \/ /\ parsed_json[section].type \in {"list", "dict"}
       /\ DOMAIN parsed_json[section].value = {}
    \/ /\ parsed_json[section].type = "str"
       /\ strip(parsed_json[section].value) = <<>>

\* C7: generate_interview_questions makes no LLM call and returns the fixed
\* "No significant content found" message whenever the named section is missing
\* or empty (an empty list, an empty dict or an empty string).
C7_EmptySectionShortCircuits ==
    (ret.op = "generate_interview_questions" /\ SectionEmpty(ret.parsed_json, ret.section))
        => /\ ret.llm = <<>>
           /\ ret.out = Returned(NoContentFound(title(ret.section)))

GatewayOps == {"parse_with_llm", "evaluate_jd_fit", "qa_on_resume", "generate_interview_questions"}

\* C8: each of the four gateway operations returns a value when the LLM call
\* raises; none lets the exception reach its caller.
C8_GatewayNeverRaises ==
    ret.op \in GatewayOps => ret.out.kind = "returned"

(***************************************************************************)
(* SpecDB: one session calling the DatabaseManager of either module        *)
(***************************************************************************)
\* the session-state list that holds a role's JDs
JdListOf(user_role) == IF user_role = "admin" THEN "admin_jd_list" ELSE "candidate_jd_list"

Managers == {"Pragyanaiapp", "mongodb_manager"}

JdNames       == {"JD1", "JD2"}
JdContents    == {<<"Python", " ", "developer">>, <<"Java", " ", "developer">>}
ResumeNames   == {"Ann", "Bob"}
VendorNames   == {"Acme", "Bolt"}
ContactEmails == {"hr@acme.com", "hr@bolt.com"}

STATUS_OPTIONS == <<"Pending", "Approved", "Rejected", "Contacted">>

\* the resume dicts a caller saves: parse_and_store_resume gives no status
ResumeInputs ==
    {[name |-> PyStr(<<n>>), parsed |-> [name |-> PyStr(<<n>>)], full_text |-> <<n>>] :
        n \in ResumeNames}
    \cup {[name |-> PyStr(<<n>>), parsed |-> [name |-> PyStr(<<n>>)], full_text |-> <<n>>,
            status |-> "Approved"] : n \in ResumeNames}

\* st.session_state.db.save_jd(jd_data, user_role)
SaveJd ==
    /\ clock < MaxClock
    /\ \E name \in JdNames, content \in JdContents, user_role \in Roles :
          LET jd_data == [name |-> name, content |-> content]
          IN  \E existing_jd \in find_one(MatchingJds(db[JdsOf(user_role)], jd_data)) :
                 LET r == save_jd(db, connected, jd_data, user_role, clock, next_id, existing_jd)
                 IN  /\ db' = r.db
                     /\ clock' = Tick(connected, clock)
                     /\ next_id' = Fresh(r.result, next_id)
                     /\ ret' = [op |-> "save_jd", data |-> jd_data, user_role |-> user_role,
                                found |-> existing_jd # 0, result |-> r.result]
    /\ UNCHANGED <<env, variant, fit_reply, ss, connected, manager>>

\* st.session_state.db.save_resume(resume_data)
SaveResume ==
    /\ clock < MaxClock
    /\ \E resume_data \in ResumeInputs :
          \E existing_resume \in find_one(MatchingResumes(db["admin_resumes"], resume_data.name)) :
             LET r == save_resume(manager, db, connected, resume_data, clock, next_id,
                                  existing_resume)
             IN  /\ db' = r.db
                 /\ clock' = Tick(connected, clock)
                 /\ next_id' = Fresh(r.result, next_id)
                 /\ ret' = [op |-> "save_resume", data |-> resume_data,
                            found |-> existing_resume # 0, result |-> r.result]
    /\ UNCHANGED <<env, variant, fit_reply, ss, connected, manager>>

\* st.session_state.db.save_vendor(vendor_data)
SaveVendor ==
    /\ clock < MaxClock
    /\ \E name \in VendorNames, contact_email \in ContactEmails :
          LET vendor_data == [name |-> name, contact_email |-> contact_email,
                              industry |-> "IT", status |-> "Pending"]
          IN  \E existing_vendor \in find_one(MatchingVendors(manager, db["vendors"], vendor_data)) :
                 LET r == save_vendor(db, connected, vendor_data, clock, next_id, existing_vendor)
                 IN  /\ db' = r.db
                     /\ clock' = Tick(connected, clock)
                     /\ next_id' = Fresh(r.result, next_id)
                     /\ ret' = [op |-> "save_vendor", data |-> vendor_data,
                                found |-> existing_vendor # 0, result |-> r.result]
    /\ UNCHANGED <<env, variant, fit_reply, ss, connected, manager>>

\* the result dicts a match loop saves
MatchResultInputs ==
    {[resume_name |-> PyStr(<<"Ann">>), jd_name |-> "JD1", overall_score |-> <<"7">>]}

\* st.session_state.db.save_match_result(result_item, user_role)
SaveMatchResult ==
    /\ clock < MaxClock
    /\ \E result_data \in MatchResultInputs, user_role \in Roles :
          /\ db' = save_match_result(db, connected, result_data, user_role, clock, next_id)
          /\ ret' = [op |-> "save_match_result", data |-> result_data,
                     user_role |-> user_role,
                     result |-> IF connected THEN next_id ELSE None]
    /\ clock' = Tick(connected, clock)
    /\ next_id' = IF connected THEN next_id + 1 ELSE next_id
    /\ UNCHANGED <<env, variant, fit_reply, ss, connected, manager>>

\* st.session_state.db.get_jds(user_role)
GetJds ==
    /\ \E user_role \in Roles :
          ret' = [op |-> "get_jds", user_role |-> user_role,
                  result |-> get_jds(db, connected, user_role)]
    /\ UNCHANGED <<env, variant, fit_reply, ss, connected, db, clock, next_id, manager>>

\* st.session_state.db.get_match_results(user_role)
GetMatchResults ==
    /\ \E user_role \in Roles :
          ret' = [op |-> "get_match_results", user_role |-> user_role,
                  result |-> get_match_results(db, connected, user_role)]
    /\ UNCHANGED <<env, variant, fit_reply, ss, connected, db, clock, next_id, manager>>

\* st.session_state.db.get_resumes()
GetResumes ==
    /\ ret' = [op |-> "get_resumes", result |-> get_resumes(db, connected)]
    /\ UNCHANGED <<env, variant, fit_reply, ss, connected, db, clock, next_id, manager>>

\* st.session_state.db.get_vendors()
GetVendors ==
    /\ ret' = [op |-> "get_vendors", result |-> get_vendors(db, connected)]
    /\ UNCHANGED <<env, variant, fit_reply, ss, connected, db, clock, next_id, manager>>

\* Pragyanaiapp.py admin_dashboard: the "Update" button of the approval tab
update_resume_status ==
    /\ manager = "Pragyanaiapp"
    /\ connected
    /\ clock < MaxClock
    /\ \E i \in 1..Len(db["admin_resumes"]), k \in 1..Len(STATUS_OPTIONS) :
          LET status == STATUS_OPTIONS[k]
          IN  /\ status # db["admin_resumes"][i].status
              /\ db' = update_one(db, "admin_resumes", i,
                                  [status |-> status, status_updated_at |-> clock])
              /\ ret' = [op |-> "update_resume_status", status |-> status,
                         result |-> db["admin_resumes"][i]._id]
    /\ clock' = clock + 1
    /\ UNCHANGED <<env, variant, fit_reply, ss, connected, next_id, manager>>

VENDOR_STATUS_OPTIONS == <<"Pending", "Approved", "Onboarding", "Rejected">>

\* Pragyanaiapp.py admin_dashboard: the "Update" button of the vendors tab
update_vendor_status ==
    /\ manager = "Pragyanaiapp"
    /\ connected
    /\ clock < MaxClock
    /\ \E i \in 1..Len(db["vendors"]), k \in 1..Len(VENDOR_STATUS_OPTIONS) :
          LET status == VENDOR_STATUS_OPTIONS[k]
          IN  /\ status # db["vendors"][i].status
              /\ db' = update_one(db, "vendors", i,
                                  [status |-> status, status_updated_at |-> clock])
              /\ ss' = [ss EXCEPT !.vendor_list = get_vendors(db', connected)]
              /\ ret' = [op |-> "update_vendor_status", status |-> status,
                         result |-> db["vendors"][i]._id]
    /\ clock' = clock + 1
    /\ UNCHANGED <<env, variant, fit_reply, connected, next_id, manager>>

\* def clear_all_data(self)
clear_all_data ==
    /\ connected
    /\ db # EmptyDb
    /\ db' = EmptyDb
    /\ ss' = [ss EXCEPT !.admin_jd_list = <<>>, !.resumes_to_analyze = <<>>,
                        !.admin_match_results = <<>>, !.candidate_jd_list = <<>>,
                        !.candidate_match_results = <<>>, !.vendor_list = <<>>]
    /\ ret' = [op |-> "clear_all_data"]
    /\ UNCHANGED <<env, variant, fit_reply, connected, clock, next_id, manager>>

InitDB ==
    /\ variant = "app_admin"
    /\ fit_reply = NoReply
    /\ ss = EmptySession
    /\ connected \in BOOLEAN
    /\ db = EmptyDb
    /\ clock = 0
    /\ next_id = 1
    /\ manager \in Managers
    /\ ret = NoCall
    /\ env = SessionEnv(connected)

NextDB ==
    \/ SaveJd
    \/ SaveResume
    \/ SaveVendor
    \/ update_resume_status
    \/ update_vendor_status
    \/ clear_all_data

SpecDB == InitDB /\ [][NextDB]_vars

(***************************************************************************)
(* Claims about the DatabaseManager (checked under SpecDB)                 *)
(***************************************************************************)
SameJdKey(a, b) == a.name = b.name /\ a.content = b.content

UniqueJds(user_role) ==
    LET docs == db[JdsOf(user_role)]
    IN  \A i, j \in 1..Len(docs) : i # j => ~SameJdKey(docs[i], docs[j])

UniqueResumes ==
    LET docs == db["admin_resumes"]
    IN  \A i, j \in 1..Len(docs) : i # j => docs[i].name # docs[j].name

\* a step that saves a JD whose (name, content) is already stored
ResavesJd ==
    /\ ret'.op = "save_jd"
    /\ connected
    /\ MatchingJds(db[JdsOf(ret'.user_role)], ret'.data) # {}

\* a step that saves a resume whose name is already stored
ResavesResume ==
    /\ ret'.op = "save_resume"
    /\ connected
    /\ MatchingResumes(db["admin_resumes"], ret'.data.name) # {}

\* the stored document takes the saved fields and no document is added
UpdatedInPlace(coll, matching) ==
    /\ Len(db'[coll]) = Len(db[coll])
    /\ \A i \in 1..Len(db[coll]) :
          IF i \in matching
          THEN /\ db'[coll][i]._id = db[coll][i]._id
               /\ db'[coll][i].updated_at = clock
               /\ db'[coll][i].created_at = db[coll][i].created_at
          ELSE db'[coll][i] = db[coll][i]

\* every re-save of a step updates in place
ResaveUpdatesInPlace ==
    /\ ResavesJd =>
          UpdatedInPlace(JdsOf(ret'.user_role),
                         MatchingJds(db[JdsOf(ret'.user_role)], ret'.data))
    /\ ResavesResume =>
          UpdatedInPlace("admin_resumes",
                         MatchingResumes(db["admin_resumes"], ret'.data.name))

\* C9: after any sequence of save_jd and save_resume calls of one session no
\* role's JD collection holds two documents with the same (name, content) and
\* the resume collection holds no two documents with the same name; a save
\* whose key is already stored updates that document and adds none.
C9_UpsertByNaturalKey ==
    /\ [](UniqueJds("admin") /\ UniqueJds("candidate") /\ UniqueResumes)
    /\ [][ResaveUpdatesInPlace]_vars

\* a stored JD has been saved again while its collection holds two JDs
C9_Witness ==
    /\ ret.op = "save_jd"
    /\ ret.found
    /\ Len(db[JdsOf(ret.user_role)]) = 2
    /\ \E i \in 1..2 : LET doc == db[JdsOf(ret.user_role)][i]
                        IN  doc._id = ret.result /\ doc.updated_at > doc.created_at

\* C10: after any sequence of save_vendor calls no two vendor documents share
\* a name and no two vendor documents share a contact email.
C10_VendorsUnique ==
    LET docs == db["vendors"]
    IN  \A i, j \in 1..Len(docs) :
           i # j => /\ docs[i].name # docs[j].name
                    /\ docs[i].contact_email # docs[j].contact_email

\* the documents of a collection that a step keeps hold the status they had
StatusKept(coll) ==
    \A i \in 1..Len(db[coll]) :
        i <= Len(db'[coll]) => db'[coll][i].status = db[coll][i].status

\* a step of any operation but the two status updates changes no stored status
OnlyStatusUpdateChangesStatus ==
    ret'.op \notin {"update_resume_status", "update_vendor_status"}
        => StatusKept("admin_resumes") /\ StatusKept("vendors")

\* C11: the stored status of a resume or vendor changes only through
\* update_resume_status / update_vendor_status; saving again a resume or vendor
\* that is already stored leaves its status as it was.
C11_StatusOnlyByUpdate == [][OnlyStatusUpdateChangesStatus]_vars

(***************************************************************************)
(* SpecRoles: one session saving and getting JDs and match results in both *)
(* roles                                                                   *)
(***************************************************************************)
NextRoles ==
    \/ SaveJd
    \/ SaveMatchResult
    \/ GetJds
    \/ GetMatchResults
    \/ clear_all_data

SpecRoles == InitDB /\ [][NextRoles]_vars

OtherRole(user_role) == IF user_role = "admin" THEN "candidate" ELSE "admin"
RoleCollections(user_role) == {JdsOf(user_role), MatchResultsOf(user_role)}

\* the ObjectIds of a list of documents
Ids(docs) == {docs[i]._id : i \in 1..Len(docs)}

RoleSaves == {"save_jd", "save_match_result"}

\* a step of an operation with a role leaves the other role's collections as
\* they are; a document enters a role's collection only by a save with that
\* role; a get with a role returns the documents of that role's collection
RoleIsolatedStep ==
    /\ ret'.op \in RoleSaves =>
          \A c \in RoleCollections(OtherRole(ret'.user_role)) : db'[c] = db[c]
    /\ \A r \in Roles : \A c \in RoleCollections(r) :
          Ids(db'[c]) \ Ids(db[c]) # {} => (ret'.op \in RoleSaves /\ ret'.user_role = r)
    /\ ret'.op = "get_jds" =>
          Ids(ret'.result) = {str(id) : id \in Ids(db[JdsOf(ret'.user_role)])}
    /\ ret'.op = "get_match_results" =>
          Ids(ret'.result) = {str(id) : id \in Ids(db[MatchResultsOf(ret'.user_role)])}

\* C12: JD and match-result operations with role "admin" never change the
\* candidate collections and those with role "candidate" never change the admin
\* collections; get_jds(r) and get_match_results(r) return only documents
\* saved with role r.
C12_RolesIsolated == [][RoleIsolatedStep]_vars

\* both roles hold a JD, the admin a match result too, and get_jds has
\* returned the one JD of the candidate
C12_Witness ==
    /\ db["admin_jds"] # <<>> /\ db["admin_match_results"] # <<>>
    /\ Len(db["candidate_jds"]) = 1
    /\ ret.op = "get_jds" /\ ret.user_role = "candidate"
    /\ Len(ret.result) = 1
    /\ ret.result[1]._id = str(db["candidate_jds"][1]._id)

(***************************************************************************)
(* SpecRuns: analysis runs repeated in one session, in each match loop     *)
(***************************************************************************)
\* the script has rerun after a run: the button can be pressed again
Rerun ==
    /\ fit_reply # NoReply
    /\ fit_reply' = NoReply
    /\ UNCHANGED <<env, variant, ss, connected, db, clock, next_id, manager, ret>>

OtherFitText == [SomeFitText EXCEPT !.ov = [style |-> "plain", run |-> <<"0">>]]

RunFitReplies == GatewayFitReplies \cup {[kind |-> "text", text |-> OtherFitText]}

NextRuns ==
    \/ RunMatchAnalysisAppAdmin(RunFitReplies)
    \/ RunBatchMatchAppCandidate(RunFitReplies)
    \/ RunMatchAnalysisPortalAdmin(RunFitReplies)
    \/ RunMatchAnalysisPortalCandidate(RunFitReplies)
    \/ Rerun

SpecRuns == InitFit /\ [][NextRuns]_vars

\* the match results the dashboard of the variant shows
ShownIn(session) ==
    IF variant \in {"app_admin", "portal_admin"} THEN session.admin_match_results
    ELSE session.candidate_match_results

\* a run adds its results to the ones shown before it, which all stay shown
RunAccumulates ==
    (fit_reply = NoReply /\ fit_reply' # NoReply) =>
        /\ Len(ShownIn(ss')) = Len(ShownIn(ss)) + Len(fit_reply')
        /\ \A i \in 1..Len(ShownIn(ss)) :
              \E j \in 1..Len(ShownIn(ss')) : ShownIn(ss')[j] = ShownIn(ss)[i]

\* C13: MatchResults accumulate across analysis runs: after k runs that each
\* produce a result for the same (resume, JD) pair, k results for the pair are
\* shown; a later run never removes, replaces or hides an earlier result.
C13_ResultsAccumulate == [][RunAccumulates]_vars

(***************************************************************************)
(* SpecOrder: one session saving JDs, resumes and vendors and getting the  *)
(* lists of them                                                           *)
(***************************************************************************)
NextOrder ==
    \/ SaveJd
    \/ SaveResume
    \/ SaveVendor
    \/ GetJds
    \/ GetResumes
    \/ GetVendors

SpecOrder == InitDB /\ [][NextOrder]_vars

\* the collection a get reads
ReadBy(call) ==
    CASE call.op = "get_jds"     -> JdsOf(call.user_role)
      [] call.op = "get_resumes" -> "admin_resumes"
      [] call.op = "get_vendors" -> "vendors"

\* the last operation was a get: it returned every stored document of its
\* collection, a later created_at before an earlier one
GetsNewestFirst ==
    (connected /\ ret.op \in {"get_jds", "get_resumes", "get_vendors"}) =>
        /\ Len(ret.result) = Len(db[ReadBy(ret)])
        /\ Ids(ret.result) = {str(id) : id \in Ids(db[ReadBy(ret)])}
        /\ \A i, j \in 1..Len(ret.result) :
              i < j => ret.result[i].created_at > ret.result[j].created_at

\* a step leaves the created_at of every stored document as it is
CreatedAtKept ==
    \A c \in {"admin_jds", "candidate_jds", "admin_resumes", "vendors"} :
        \A i \in 1..Len(db[c]) :
            /\ i <= Len(db'[c])
            /\ db'[c][i]._id = db[c][i]._id
            /\ db'[c][i].created_at = db[c][i].created_at

\* C14: get_jds, get_resumes and get_vendors return all stored documents,
\* newest first by creation time; the creation time of a document is the time
\* of its first insertion, which a re-save through the upsert keeps.
C14_NewestFirstByFirstInsertion ==
    /\ []GetsNewestFirst
    /\ [][CreatedAtKept]_vars

\* get_resumes has returned two resumes, the older of them saved again after
\* the newer one was created, and still last
C14_Witness ==
    /\ ret.op = "get_resumes"
    /\ Len(ret.result) = 2
    /\ ret.result[2].updated_at > ret.result[1].created_at
    /\ ret.result[1].created_at > ret.result[2].created_at

(***************************************************************************)
(* SpecOffline: a session whose DatabaseManager is not connected, while    *)
(* the store holds the documents of earlier sessions                       *)
(***************************************************************************)
\* st.session_state.db.get_platform_metrics(), the Statistics tab
GetPlatformMetrics ==
    /\ ret' = [op |-> "get_platform_metrics",
               result |-> get_platform_metrics(db, connected)]
    /\ UNCHANGED <<env, variant, fit_reply, ss, connected, db, clock, next_id, manager>>

\* admin_dashboard, Settings tab: "Clear ALL Application Data from MongoDB"
ClearAllButton ==
    /\ IF connected
       THEN /\ db' = EmptyDb
            /\ ss' = [ss EXCEPT !.admin_jd_list = <<>>, !.resumes_to_analyze = <<>>,
                                !.admin_match_results = <<>>, !.candidate_jd_list = <<>>,
                                !.candidate_match_results = <<>>, !.vendor_list = <<>>]
            /\ ret' = [op |-> "clear_button", message |-> "All application data cleared"]
       ELSE /\ ret' = [op |-> "clear_button", message |-> "Database is not connected."]
            /\ UNCHANGED <<db, ss>>
    /\ UNCHANGED <<env, variant, fit_reply, connected, clock, next_id, manager>>

\* what earlier sessions have left in the store
StoredJd == [_id |-> 1, name |-> "JD1", content |-> <<"Python", " ", "developer">>,
             created_at |-> 0, updated_at |-> 0]
StoredResume == [_id |-> 2, name |-> PyStr(<<"Ann">>), parsed |-> [name |-> PyStr(<<"Ann">>)],
                 full_text |-> <<"Ann">>, status |-> "Approved",
                 created_at |-> 0, updated_at |-> 0]
StoredDbs ==
    {EmptyDb,
     [EmptyDb EXCEPT !["admin_jds"] = <<StoredJd>>],
     [EmptyDb EXCEPT !["admin_jds"] = <<StoredJd>>, !["admin_resumes"] = <<StoredResume>>]}

InitOffline ==
    /\ variant = "app_admin"
    /\ fit_reply = NoReply
    /\ ss = EmptySession
    /\ connected = FALSE
    /\ db \in StoredDbs
    /\ clock = 1
    /\ next_id = 3
    /\ manager \in Managers
    /\ ret = NoCall
    /\ env = SessionEnv(connected)

NextOffline ==
    \/ SaveJd
    \/ SaveResume
    \/ SaveVendor
    \/ SaveMatchResult
    \/ GetJds
    \/ GetResumes
    \/ GetVendors
    \/ GetMatchResults
    \/ GetPlatformMetrics
    \/ ClearAllButton

SpecOffline == InitOffline /\ [][NextOffline]_vars

SaveOps == {"save_jd", "save_resume", "save_vendor", "save_match_result"}
GetOps == {"get_jds", "get_resumes", "get_vendors", "get_match_results"}

\* the call returned None (a save) or an empty list (any other operation)
ReturnedNothing(call) ==
    IF call.op \in SaveOps THEN call.result = None ELSE DOMAIN call.result = {}

\* while not connected, a step leaves the store and the ObjectIds as they are
OfflineStoreUntouched == ~connected => (db' = db /\ next_id' = next_id)

StoreFailures == {"none", "write", "get_jds"}

\* collection.delete_one({'_id': ObjectId(id_str)})
delete_one(d, coll, id_str) ==
    [d EXCEPT ![coll] = SelectSeq(@, LAMBDA doc : str(doc._id) # id_str)]

\* what the session is left with when the handler ends: a message shown, or an
\* exception that no except clause of the handler or of DatabaseManager caught
Shown(op, message) == [op |-> op, raised |-> FALSE, message |-> message]
Uncaught(op) == [op |-> op, raised |-> TRUE, message |-> ""]

\* "Add JD(s) from Text" of either dashboard, one text pasted
AddJdFromText ==
    /\ clock < MaxClock
    /\ \E name \in JdNames, content \in JdContents, user_role \in Roles :
       \E fails \in StoreFailures :
          IF ~connected
          THEN /\ ret' = Shown("add_jd_text", "Cannot add JD: Database is not connected.")
               /\ UNCHANGED <<db, ss, clock, next_id>>
          ELSE IF fails = "write"
          THEN /\ ret' = Uncaught("add_jd_text")
               /\ UNCHANGED <<db, ss, clock, next_id>>
          ELSE \E existing_jd \in find_one(MatchingJds(db[JdsOf(user_role)],
                                                       [name |-> name, content |-> content])) :
               \E r \in {save_jd(db, connected, [name |-> name, content |-> content],
                                 user_role, clock, next_id, existing_jd)} :
                  /\ db' = r.db
                  /\ clock' = clock + 1
                  /\ next_id' = Fresh(r.result, next_id)
                  /\ IF fails = "get_jds"
                     THEN /\ ret' = Uncaught("add_jd_text")
                          /\ ss' = ss
                     ELSE /\ ret' = Shown("add_jd_text", "JD(s) added successfully!")
                          /\ ss' = [ss EXCEPT ![JdListOf(user_role)] =
                                                 get_jds(r.db, connected, user_role)]
    /\ UNCHANGED <<env, variant, fit_reply, connected, manager>>

\* the delete button shown beside a JD of the list
DeleteJd ==
    /\ \E user_role \in Roles : \E i \in 1..Len(ss[JdListOf(user_role)]) :
       \E fails \in StoreFailures :
          IF ~connected
          THEN /\ ret' = Shown("delete_jd", "Cannot delete: Database is not connected.")
               /\ UNCHANGED <<db, ss>>
          ELSE IF fails = "write"
          THEN /\ ret' = Uncaught("delete_jd")
               /\ UNCHANGED <<db, ss>>
          ELSE /\ db' = delete_one(db, JdsOf(user_role), ss[JdListOf(user_role)][i]._id)
               /\ IF fails = "get_jds"
                  THEN /\ ret' = Uncaught("delete_jd")
                       /\ ss' = ss
                  ELSE /\ ret' = Shown("delete_jd", "")
                       /\ ss' = [ss EXCEPT ![JdListOf(user_role)] =
                                              get_jds(db', connected, user_role)]
    /\ UNCHANGED <<env, variant, fit_reply, connected, clock, next_id, manager>>

NextStore ==
    \/ AddJdFromText
    \/ DeleteJd

SpecStore == InitDB /\ [][NextStore]_vars

\* C16: a failure raised by the document store during a persistence operation
\* on a connected database is caught within the operation and surfaced as a
\* message; no handler ends with an exception that nothing caught.
C16_StoreFailureCaught ==
    (connected /\ ret.op \in {"add_jd_text", "delete_jd"}) => ~ret.raised

(***************************************************************************)
(* SpecStartup: the script from the start of the process: the settings,    *)
(* the DatabaseManager of the session, the login and role pages and the    *)
(* head of the dashboards                                                  *)
(***************************************************************************)
\* Pragyanaiapp.py, main_app.py (with mongodb_manager.py), and app.py of
\* pragyanai-jobportal
Apps == {"Pragyanaiapp", "main_app", "portal"}

\* the module level of Pragyanaiapp.py and of mongodb_manager.py: st.error and
\* st.stop() when a setting is missing. The portal's app.py reads no setting;
\* the module its dashboards import the LLM client from does, when it is there
ScriptStart(e) ==
    IF e.app = "portal" /\ ~e.imports_app THEN "running"
    ELSE IF ~e.GROQ_API_KEY THEN "GROQ_API_KEY not set"
    ELSE IF ~e.MONGODB_URI THEN "MONGODB_URI not set"
    ELSE "running"

\* the try of init_connection with the except clause for ConfigurationError only
init_connection_OnlyConfigurationError(m, store) ==
    [client |-> store = "ok", raised |-> store \in {"connection_fails", "ping_fails"},
     message |-> IF store = "no_default_database" THEN "MongoDB Configuration Error" ELSE ""]

\* def init_connection(mongo_uri): MongoClient, ping and get_default_database
\* in one try whose last except clause catches Exception and returns None
init_connection(m, store) ==
    [client |-> store = "ok", raised |-> FALSE,
     message |-> IF store = "ok" THEN ""
                 ELSE IF m = "Pragyanaiapp" /\ store = "no_default_database"
                      THEN "MongoDB Configuration Error"
                      ELSE "MongoDB Connection Error"]

\* DatabaseManager.__init__(self, uri): the default database of the client, or
\* None without a client
DatabaseManager(m, store) ==
    [made |-> TRUE, client |-> init_connection(m, store).client,
     db |-> init_connection(m, store).client,
     raised |-> init_connection(m, store).raised,
     message |-> init_connection(m, store).message]

\* def is_connected(self)
is_connected(self) == self.client /\ self.db

\* 'db' not in st.session_state
NoManager == [made |-> FALSE, client |-> FALSE, db |-> FALSE, raised |-> FALSE, message |-> ""]

\* st.session_state before the first run of the script
StartSession == Merge(EmptySession, [page |-> "unset", db |-> NoManager])

\* def main(): the page and the DatabaseManager, each made once per session
main(session, e, m) ==
    [session EXCEPT !.page = IF @ = "unset" THEN "login" ELSE @,
                    !.db = IF e.app = "portal" \/ @.made THEN @
                           ELSE DatabaseManager(m, e.store)]

Dashboards == {"admin_dashboard", "candidate_dashboard"}

\* the head of admin_dashboard and candidate_dashboard: the message shown, the
\* lists of the session, and whether the tabs are drawn after it
EnterDashboard(session, app, d) ==
    IF session.page \notin Dashboards \/ app = "portal"
        \/ (app = "main_app" /\ session.page # "admin_dashboard")
    THEN [ss |-> session, message |-> "", tabs |-> session.page \in Dashboards]
    ELSE IF ~is_connected(session.db)
    THEN IF app = "main_app"
         THEN [ss |-> session, message |-> "Cannot proceed: MongoDB is not connected.",
               tabs |-> FALSE]
         ELSE [ss |-> IF session.page = "admin_dashboard"
                      THEN [session EXCEPT !.admin_jd_list = <<>>,
                                           !.resumes_to_analyze = <<>>,
                                           !.vendor_list = <<>>,
                                           !.admin_match_results = <<>>]
                      ELSE [session EXCEPT !.candidate_jd_list = <<>>,
                                           !.candidate_match_results = <<>>],
               message |-> "Cannot proceed: MongoDB database is not connected.",
               tabs |-> TRUE]
    ELSE IF app = "main_app"
    THEN [ss |-> [session EXCEPT !.admin_jd_list = get_jds(d, TRUE, "admin"),
                                 !.resumes_to_analyze = get_resumes(d, TRUE),
                                 !.vendor_list = get_vendors(d, TRUE),
                                 !.admin_match_results = get_match_results(d, TRUE, "admin")],
          message |-> "", tabs |-> TRUE]
    ELSE [ss |-> IF session.page = "admin_dashboard"
                 THEN [session EXCEPT !.resumes_to_analyze = get_resumes(d, TRUE)]
                 ELSE session,
          message |-> "", tabs |-> TRUE]

\* how a run of the script ended
Halted(message) ==
    [op |-> "run", halted |-> TRUE, raised |-> FALSE, rendered |-> "none",
     message |-> message, tabs |-> FALSE]
Crashed ==
    [op |-> "run", halted |-> FALSE, raised |-> TRUE, rendered |-> "none",
     message |-> "", tabs |-> FALSE]
Rendered(page, message, tabs) ==
    [op |-> "run", halted |-> FALSE, raised |-> FALSE, rendered |-> page,
     message |-> message, tabs |-> tabs]

\* one run of the script, top to bottom, with no button pressed
RunScript ==
    /\ IF ScriptStart(env) # "running"
       THEN /\ ret' = Halted(ScriptStart(env))
            /\ UNCHANGED <<ss, connected>>
       ELSE \E s1 \in {main(ss, env, manager)} :
            IF s1.db.raised
            THEN /\ ret' = Crashed
                 /\ UNCHANGED <<ss, connected>>
            ELSE \E r \in {EnterDashboard(s1, env.app, db)} :
                    /\ ss' = r.ss
                    /\ connected' = is_connected(s1.db)
                    /\ ret' = Rendered(s1.page, r.message, r.tabs)
    /\ UNCHANGED <<env, variant, fit_reply, db, clock, next_id, manager>>

\* what the user types and selects on the login and role pages
Emails == {<<>>, <<"ann@acme.com">>}
Passwords == {<<>>, <<"secret">>}
LoginRoles == {"Select Role", "Admin Dashboard", "Candidate Dashboard",
               "Hiring Company Dashboard"}
MainAppRoles == {"Admin", "Candidate", "Hiring"}

\* the page a role of a selectbox stands for
PageOfRole(role) ==
    IF role \in {"Admin Dashboard", "Admin"} THEN "admin_dashboard"
    ELSE IF role \in {"Candidate Dashboard", "Candidate"} THEN "candidate_dashboard"
    ELSE IF role \in {"Hiring Company Dashboard", "Hiring"} THEN "hiring_dashboard"
    ELSE "none"

\* def login_page(): the page after the Login button, and the message it shows
login_page(app, page, email, password, selected_role) ==
    IF app = "main_app"
    THEN [page |-> "role_selection", message |-> "Login successful!"]
    ELSE IF ~(bool(PyStr(email)) /\ bool(PyStr(password)))
    THEN [page |-> page, message |-> "Please enter both email and password"]
    ELSE IF app = "Pragyanaiapp"
    THEN [page |-> "role_selection", message |-> "Login successful!"]
    ELSE IF selected_role = "Select Role"
    THEN [page |-> page, message |-> "Please select your role before logging in."]
    ELSE [page |-> PageOfRole(selected_role), message |-> "Login successful!"]

\* the Login button of the login page
Login ==
    /\ ScriptStart(env) = "running"
    /\ ss.page = "login"
    /\ \E email \in Emails, password \in Passwords, selected_role \in LoginRoles :
       \E r \in {login_page(env.app, ss.page, email, password, selected_role)} :
          /\ ss' = [ss EXCEPT !.page = r.page]
          /\ ret' = [op |-> "login", email |-> email, password |-> password,
                     selected_role |-> selected_role, message |-> r.message]
    /\ UNCHANGED <<env, variant, fit_reply, connected, db, clock, next_id, manager>>

\* def role_selection_page(): the Continue button
Continue ==
    /\ ScriptStart(env) = "running"
    /\ ss.page = "role_selection"
    /\ \E role \in (IF env.app = "main_app" THEN MainAppRoles ELSE LoginRoles) :
          /\ ss' = [ss EXCEPT !.page = IF role = "Select Role" THEN @ ELSE PageOfRole(role)]
          /\ ret' = [op |-> "continue", role |-> role,
                     message |-> IF role = "Select Role"
                                 THEN "Please select a role first" ELSE ""]
    /\ UNCHANGED <<env, variant, fit_reply, connected, db, clock, next_id, manager>>

\* the sidebar button of a dashboard: "Go Back to Role Selection"
GoBack ==
    /\ ScriptStart(env) = "running"
    /\ env.app # "portal"
    /\ ss.page \in Dashboards \cup {"hiring_dashboard"}
    /\ ss' = [ss EXCEPT !.page = "role_selection"]
    /\ ret' = [op |-> "go_back"]
    /\ UNCHANGED <<env, variant, fit_reply, connected, db, clock, next_id, manager>>

\* candidate_dashboard of the portal, "Add JD(s) from Text" with one text:
\* extract_jd_metadata is a NameError unless the import from app succeeded
AddJdPortal ==
    /\ ScriptStart(env) = "running"
    /\ env.app = "portal"
    /\ ss.page = "candidate_dashboard"
    /\ Len(ss.candidate_jd_list) < 1
    /\ \E name \in JdNames, content \in JdContents :
          IF env.imports_app
          THEN /\ ss' = [ss EXCEPT !.candidate_jd_list =
                                      Append(@, [name |-> name, content |-> content])]
               /\ ret' = [op |-> "add_jd_portal", message |-> "JD(s) added successfully!"]
          ELSE /\ ss' = ss
               /\ ret' = [op |-> "add_jd_portal",
                          message |-> "Function 'extract_jd_metadata' not imported"]
    /\ UNCHANGED <<env, variant, fit_reply, connected, db, clock, next_id, manager>>

ChatbotDisabled ==
    <<"AI Chatbot Disabled: GROQ_API_KEY is not set or LLM client not initialized.">>

\* def jd_qa_on_jd(question, jd_content): client and GROQ_API_KEY are None
\* when the import from app failed
jd_qa_on_jd(e, question, jd_content, reply) ==
    IF ~(e.imports_app /\ e.GROQ_API_KEY)
    THEN [llm |-> <<>>, out |-> ChatbotDisabled]
    ELSE [llm |-> <<[op |-> "jd_qa_on_jd", text |-> jd_content, question |-> question]>>,
          out |-> IF reply.kind = "raise"
                  THEN <<"Error communicating with LLM API">>
                  ELSE strip(reply.text)]

\* jd_chatbot_content: "Get JD Answer" for the first JD of the list
GetJdAnswer ==
    /\ ScriptStart(env) = "running"
    /\ env.app = "portal"
    /\ ss.page = "candidate_dashboard"
    /\ ss.candidate_jd_list # <<>>
    /\ \E reply \in TextReplies :
       \E r \in {jd_qa_on_jd(env, <<"Salary", "?">>, ss.candidate_jd_list[1].content, reply)} :
          /\ ss' = [ss EXCEPT !.qa_answer = r.out]
          /\ ret' = [op |-> "jd_qa_on_jd", llm |-> r.llm, answer |-> r.out]
    /\ UNCHANGED <<env, variant, fit_reply, connected, db, clock, next_id, manager>>

\* the processes that can be started: the settings found or not, the server
\* answering or not, and for the portal the import from app succeeding or not
Envs ==
    {[app |-> a, GROQ_API_KEY |-> k, MONGODB_URI |-> u, store |-> s, imports_app |-> i] :
        a \in Apps, k \in BOOLEAN, u \in BOOLEAN, s \in StoreStates, i \in BOOLEAN}

InitStartup ==
    /\ env \in {e \in Envs : e.app # "portal" => e.imports_app}
    /\ variant = "app_admin"
    /\ fit_reply = NoReply
    /\ ss = StartSession
    /\ connected = FALSE
    /\ db \in StoredDbs
    /\ clock = 1
    /\ next_id = 3
    /\ manager = (IF env.app = "main_app" THEN "mongodb_manager" ELSE "Pragyanaiapp")
    /\ ret = NoCall

NextStartup ==
    \/ RunScript
    \/ Login
    \/ Continue
    \/ GoBack
    \/ AddJdPortal
    \/ GetJdAnswer

SpecStartup == InitStartup /\ [][NextStartup]_vars

\* the DatabaseManager of the session has been made and a page drawn
Started == ret.op = "run" /\ ~ret.halted

C18_HaltsWithoutSettings ==
    (~env.GROQ_API_KEY \/ ~env.MONGODB_URI)
    => \/ ret.op = "none"
       \/ ret.op = "run" /\ ret.halted /\ ret.rendered = "none" /\ ~ss.db.made

\* a press of the Login button
LoginStep == ret'.op = "login" /\ ss.page = "login"

\* the press leaves the login page exactly when both fields are filled
LeavesIffBothFilled ==
    LoginStep => ((ss'.page # "login") <=> (ret'.email # <<>> /\ ret'.password # <<>>))

\* C20: the Login action leaves the login page (to role selection or to a
\* dashboard) exactly when both the email and the password are non-empty; with
\* an empty email or an empty password the page stays "login".
C20_LoginIffBothNonEmpty == [][LeavesIffBothFilled]_vars

\* C23: once the admin or the candidate dashboard of the app has been drawn
\* with the database connected, and nothing has been added, deleted or
\* analysed, the JD list and the match-result list of the session equal
\* get_jds(role) and get_match_results(role).
C23_ListsLoadedOnEntry ==
    (env.app = "Pragyanaiapp" /\ ret.op = "run" /\ connected)
    => /\ ret.rendered = "admin_dashboard"
            => /\ ss.admin_jd_list = get_jds(db, TRUE, "admin")
               /\ ss.admin_match_results = get_match_results(db, TRUE, "admin")
       /\ ret.rendered = "candidate_dashboard"
            => /\ ss.candidate_jd_list = get_jds(db, TRUE, "candidate")
               /\ ss.candidate_match_results = get_match_results(db, TRUE, "candidate")

(***************************************************************************)
(* SpecBatch: one batch match of the loaded resume against two or three    *)
(* JDs, in the candidate dashboard of the app and of the portal            *)
(***************************************************************************)
BatchJd(n) == [name |-> n, content |-> <<"Python", " ", "developer", " ", n>>]

\* the JD lists of the session: two or three JDs of different names
BatchJdLists ==
    {<<BatchJd(a), BatchJd(b)>> : a, b \in {"JD1", "JD2", "JD3"}}
    \cup {<<BatchJd(a), BatchJd(b), BatchJd(c)>> : a, b, c \in {"JD1", "JD2", "JD3"}}

Distinct(jds) == \A i, j \in 1..Len(jds) : i # j => jds[i].name # jds[j].name

\* what evaluate_jd_fit does for a JD of the batch
BatchFitReplies ==
    RunFitReplies \cup (IF variant = "portal_candidate" THEN {[kind |-> "nameerror"]} ELSE {})

InitBatch ==
    /\ variant \in {"app_candidate", "portal_candidate"}
    /\ fit_reply = NoReply
    /\ connected = (variant = "app_candidate")
    /\ db = EmptyDb
    /\ clock = 0
    /\ next_id = 1
    /\ manager = "Pragyanaiapp"
    /\ ret = NoCall
    /\ \E jds \in {l \in BatchJdLists : Distinct(l)} :
          ss = [EmptySession EXCEPT !.parsed = SomeParsed,
                                    !.full_text = <<"Ann", "\n", "Python">>,
                                    !.candidate_jd_list = jds]
    /\ env = SessionEnv(connected)

NextBatch ==
    \/ RunBatchMatchAppCandidate(BatchFitReplies)
    \/ RunMatchAnalysisPortalCandidate(BatchFitReplies)

SpecBatch == InitBatch /\ [][NextBatch]_vars

\* the processing of the i-th JD of the batch raised
RaisedAt(i) == fit_reply[i].kind \in {"raise", "nameerror"}

\* the i-th JD of the batch was reached: no name was undefined before it
ReachedJd(i) == \A h \in 1..(i - 1) : fit_reply[h].kind # "nameerror"

\* what the loop built for the k-th JD is among docs: for an evaluation that
\* returned, the result with the response as its analysis; else the error item
HeldIn(docs, k) ==
    \E j \in 1..Len(docs) :
        /\ docs[j].jd_name = ss.candidate_jd_list[k].name
        /\ IF fit_reply[k].kind = "text"
           THEN /\ docs[j].full_analysis = strip(Render(fit_reply[k].text))
                /\ docs[j].overall_score = OverallScore(variant, docs[j].full_analysis)
           ELSE docs[j].overall_score = Error

Proses ==
    {<<>>, <<"Here", " ", "is", " ", "the", " ", "resume", ":", "\n">>,
     <<"\n", "Placeholders", " ", "{", " ", "are", " ", "filled", "\n">>,
     <<"\n", "All", " ", "fields", " ", "}", " ", "done", "\n">>}

Fences == {"none", "json", "bare"}

\* parse_with_llm(text) on one response
ParseWithLlm ==
    /\ \E j \in JsonTexts, before \in Proses, fence \in Fences, after \in Proses :
          ret' = [op |-> "parse_with_llm", before |-> before, fence |-> fence,
                  after |-> after, json |-> j.text,
                  out |-> parse_with_llm(<<"Ann">>, "json",
                              [kind |-> "text",
                               text |-> Layout(before, fence, j.text, after)]).out.value]
    /\ UNCHANGED <<env, variant, fit_reply, ss, connected, db, clock, next_id, manager>>

NextParse == ParseWithLlm

SpecParse == InitGateway /\ [][NextParse]_vars

\* what parse_with_llm yields for the bare JSON object of the last call
BareResult ==
    parse_with_llm(<<"Ann">>, "json", [kind |-> "text", text |-> ret.json]).out.value

\* the response of the last call wrapped the object in a json fence
Fenced == ret.op = "parse_with_llm" /\ ret.fence = "json"

\* no brace in the prose around the object
NoBrace(prose) == \A i \in 1..Len(prose) : prose[i] \notin {"{", "}"}

\* C21, as claimed: for a JSON response wrapped in a json fence with prose
\* before and after the fence, parse_with_llm yields the same parsed object as
\* for the bare JSON object alone.
C21_FencedSameAsBare == Fenced => ret.out = BareResult

\* C21, amended: the same, for prose that holds no brace; the text parsed is
\* the substring from the first "{" to the last "}" of the response, whatever
\* the fence.
C21_FencedSameAsBareNoBraceInProse ==
    /\ (Fenced /\ NoBrace(ret.before) /\ NoBrace(ret.after))
           => (ret.out = BareResult /\ "error" \notin DOMAIN ret.out)
    /\ ret.op = "parse_with_llm"
           => json_str(strip(Layout(ret.before, ret.fence, ret.json, ret.after)))
              = SubSeq(Layout(ret.before, ret.fence, ret.json, ret.after),
                       find(Layout(ret.before, ret.fence, ret.json, ret.after), "{"),
                       rfind(Layout(ret.before, ret.fence, ret.json, ret.after), "}"))

\* prose before and after a json fence around an object that holds an object:
\* the parsed object is the one of the bare text
C21_Witness ==
    /\ Fenced /\ ret.before # <<>> /\ ret.after # <<>>
    /\ NoBrace(ret.before) /\ NoBrace(ret.after)
    /\ ret.json = JsonText(SparseResume) /\ ret.out = SparseResume

\* the numeric score of a ranked result: the overall score when it is a digit
\* string, -1 otherwise
ScoreOf(r) == IF isdigit(r.overall_score) THEN int(r.overall_score) ELSE -1

\* C25: after a batch match in the candidate dashboard of the portal, the
\* results are in descending order of numeric score, those without a numeric
\* score last; a result with a strictly lower score than another has a strictly
\* larger rank, and results with equal scores have equal ranks.
C25_CompetitionRank ==
    (variant = "portal_candidate" /\ fit_reply # NoReply)
    => \A i, j \in 1..Len(ss.candidate_match_results) :
          \E a \in {ss.candidate_match_results[i]}, b \in {ss.candidate_match_results[j]} :
             /\ i < j => ScoreOf(a) >= ScoreOf(b)
             /\ ScoreOf(a) < ScoreOf(b) => a.rank > b.rank
             /\ ScoreOf(a) = ScoreOf(b) => a.rank = b.rank

(***************************************************************************)
(* SpecLoad: the candidate dashboards of the app and of the portal: a      *)
(* resume is parsed and loaded, a CV is built, a batch match is run        *)
(***************************************************************************)
\* dict.get(key, default)
get(d, key, default) == IF key \in DOMAIN d THEN d[key] ELSE default

\* parse_and_store_resume as the portal imports it: the function of the app,
\* or the name is not defined
imported_parse_and_store_resume(uploaded_file, reply) ==
    IF reply.kind = "nameerror" THEN Raised("NameError")
    ELSE Returned(parse_and_store_resume(EmptyDb, FALSE, uploaded_file,
                                         "single_resume_candidate", reply, 0, 1).result)

\* the portal after parse_and_store_resume: the result is loaded, a failure is
\* loaded as {"error": ..., "name": ...}
LoadResult(session, file_name, out) ==
    IF out.kind # "returned" THEN session
    ELSE IF "error" \notin DOMAIN out.value
    THEN [session EXCEPT !.parsed = Put(get(out.value, "parsed", <<>>), "name",
                                        get(out.value, "name", file_name)),
                         !.full_text = get(out.value, "full_text", <<>>),
                         !.excel_data = get(out.value, "excel_data", <<>>)]
    ELSE [session EXCEPT !.parsed = [error |-> PyStr(out.value.error),
                                     name |-> get(out.value, "name", file_name)],
                         !.full_text = get(out.value, "full_text", <<>>)]

PortalResumeExts == {".pdf", ".docx", ".txt"}
PortalParseReplies == ParseReplies \cup {[kind |-> "nameerror"]}

\* portal candidate_dashboard: "Parse and Load: <file>"
ParseAndLoad ==
    /\ variant = "portal_candidate"
    /\ clock < MaxClock
    /\ \E file \in Files(PortalResumeExts), reply \in PortalParseReplies :
          \E out \in {imported_parse_and_store_resume(file, reply)} :
             /\ ss' = LoadResult(ss, PyStr(<<file.stem, file.ext>>), out)
             /\ ret' = [op |-> "parse_and_store_resume", file |-> file, llm |-> <<>>,
                        out |-> out]
    /\ clock' = clock + 1
    /\ UNCHANGED <<env, variant, fit_reply, connected, db, next_id, manager>>

\* the form of the CV builder as the first run of the dashboard makes it
default_parsed ==
    [name |-> PyStr(<<>>), email |-> PyStr(<<>>), phone |-> PyStr(<<>>),
     linkedin |-> PyStr(<<>>), github |-> PyStr(<<>>), skills |-> PyList(<<>>),
     experience |-> PyList(<<>>), education |-> PyList(<<>>),
     certifications |-> PyList(<<>>), projects |-> PyList(<<>>),
     strength |-> PyList(<<>>), personal_details |-> PyStr(<<>>)]

CvNames  == {<<>>, <<"Ann">>}
CvEmails == {<<>>, <<"ann@acme.com">>}

\* the raw text compiled from the filled fields of the form
compiled_text(name, email) == <<"Name", ":\n">> \o name \o <<"\n\n", "Email", ":\n">> \o email \o <<"\n\n">>

\* portal cv_management_tab_content: "Generate and Load CV Data"
GenerateAndLoadCv ==
    /\ variant = "portal_candidate"
    /\ clock < MaxClock
    /\ \E name \in CvNames, email \in CvEmails :
          \E cv_form_data \in {Merge(default_parsed, [name |-> PyStr(name), email |-> PyStr(email)])} :
             IF ~bool(cv_form_data.name) \/ ~bool(cv_form_data.email)
             THEN /\ ss' = ss
                  /\ ret' = [op |-> "generate_cv", loaded |-> FALSE]
             ELSE /\ ss' = [ss EXCEPT !.parsed = cv_form_data,
                                      !.full_text = compiled_text(name, email),
                                      !.candidate_match_results = <<>>]
                  /\ ret' = [op |-> "generate_cv", loaded |-> TRUE]
    /\ clock' = clock + 1
    /\ UNCHANGED <<env, variant, fit_reply, connected, db, next_id, manager>>

InitLoad ==
    /\ variant \in {"app_candidate", "portal_candidate"}
    /\ fit_reply = NoReply
    /\ connected = (variant = "app_candidate")
    /\ db = EmptyDb
    /\ clock = 0
    /\ next_id = 1
    /\ manager = "Pragyanaiapp"
    /\ ret = NoCall
    /\ ss = [EmptySession EXCEPT !.candidate_jd_list = <<BatchJd("JD1")>>]
    /\ env = SessionEnv(connected)

NextLoad ==
    \/ ParseResume
    \/ ParseAndLoad
    \/ GenerateAndLoadCv
    \/ RunBatchMatchAppCandidate(GatewayFitReplies)
    \/ RunMatchAnalysisPortalCandidate(GatewayFitReplies)

SpecLoad == InitLoad /\ [][NextLoad]_vars

\* a step in which a batch match calls evaluate_jd_fit
BatchEvaluates == fit_reply = NoReply /\ fit_reply' # NoReply

\* a batch match is never run on a parsed resume that carries "error"
NoBatchOnError == BatchEvaluates => "error" \notin DOMAIN ss.parsed

\* C26: evaluate_jd_fit is never invoked by a batch match with a parsed resume
\* that carries an "error" key: after a failed parse the batch match stays
\* blocked until a resume is parsed successfully or a CV is built.
C26_NoBatchOnFailedParse == [][NoBatchOnError]_vars

\* a resume is loaded: parsed fields with a name and no "error"
ResumeLoaded(session) ==
    "name" \in DOMAIN session.parsed /\ "error" \notin DOMAIN session.parsed

\* the step is a resume parse that failed
ParseFails ==
    /\ ret'.op = "parse_and_store_resume" /\ clock' # clock
    /\ (ret'.out.kind = "raised" \/ "error" \in DOMAIN ret'.out.value)

\* a failed parse leaves the loaded resume as it was
FailedParseKeepsResume ==
    (ResumeLoaded(ss) /\ ParseFails)
    => /\ ss'.parsed = ss.parsed
       /\ ss'.full_text = ss.full_text
       /\ ss'.excel_data = ss.excel_data

\* C30: in both candidate dashboards a resume parse that fails leaves the
\* previously loaded resume state (parsed fields, full text, Excel data)
\* unchanged.
C30_FailedParseKeepsLoaded == [][FailedParseKeepsResume]_vars

(***************************************************************************)
(* SpecAdmin: the in-memory admin dashboard of the portal: JDs are added,  *)
(* resumes parsed, analyses run, the two lists cleared                     *)
(***************************************************************************)
\* what the admin pastes as a JD: nothing, or a text whose first line names it
PastedJds == {<<>>, <<"JD1", "\n", "Python">>, <<"JD2", "\n", "Java">>}

\* "Add JD(s) from Text", single JD
AddJdFromTextAdmin ==
    /\ variant = "portal_admin"
    /\ clock < MaxClock
    /\ \E text_list \in PastedJds :
          /\ ss' = IF strip(text_list) = <<>> THEN ss
                   ELSE [ss EXCEPT !.admin_jd_list =
                            Append(@, [name |-> Head(strip(text_list)),
                                       content |-> strip(text_list)])]
          /\ ret' = [op |-> "add_jd", text |-> text_list]
    /\ clock' = clock + 1
    /\ UNCHANGED <<env, variant, fit_reply, connected, db, next_id, manager>>

\* the resumes uploaded for analysis are PDF files
AnalysisResumeExts == {".pdf"}

\* "Load and Parse Resume(s) for Analysis", one file
LoadAndParseResumesAdmin ==
    /\ variant = "portal_admin"
    /\ clock < MaxClock
    /\ \E file \in Files(AnalysisResumeExts), reply \in ParseReplies :
          \E result \in {parse_and_store_resume(EmptyDb, FALSE, file, "admin_analysis",
                                                reply, 0, 1).result} :
             /\ ss' = IF "error" \in DOMAIN result THEN ss
                      ELSE [ss EXCEPT !.resumes_to_analyze =
                               Append(@, Merge(result,
                                               [applied_jd |-> <<"N/A (Pending Assignment)">>,
                                                submitted_date |-> <<"today">>]))]
             /\ ret' = [op |-> "parse_and_store_resume", out |-> Returned(result)]
    /\ clock' = clock + 1
    /\ UNCHANGED <<env, variant, fit_reply, connected, db, next_id, manager>>

\* the click on "Run Match Analysis" with any selection of the multiselect
RunMatchAnalysisClick ==
    /\ RunMatchAnalysisOnSelected(GatewayFitReplies,
                                  SUBSET UNION AllNames(ss.resumes_to_analyze))
    /\ ret' = [op |-> "run_match_analysis", evaluated |-> fit_reply' # NoReply]

\* "Clear All JDs" leaving the match results
ClearAllJds_KeepsResults ==
    /\ variant = "portal_admin"
    /\ ss.admin_jd_list # <<>>
    /\ clock < MaxClock
    /\ ss' = [ss EXCEPT !.admin_jd_list = <<>>]
    /\ ret' = [op |-> "clear_jds"]
    /\ clock' = clock + 1
    /\ UNCHANGED <<env, variant, fit_reply, connected, db, next_id, manager>>

\* "Clear All JDs"
ClearAllJds ==
    /\ variant = "portal_admin"
    /\ ss.admin_jd_list # <<>>
    /\ clock < MaxClock
    /\ ss' = [ss EXCEPT !.admin_jd_list = <<>>, !.admin_match_results = <<>>]
    /\ ret' = [op |-> "clear_jds"]
    /\ clock' = clock + 1
    /\ UNCHANGED <<env, variant, fit_reply, connected, db, next_id, manager>>

\* "Clear All Resumes"
ClearAllResumes ==
    /\ variant = "portal_admin"
    /\ clock < MaxClock
    /\ ss' = [ss EXCEPT !.resumes_to_analyze = <<>>, !.admin_match_results = <<>>]
    /\ ret' = [op |-> "clear_resumes"]
    /\ clock' = clock + 1
    /\ UNCHANGED <<env, variant, fit_reply, connected, db, next_id, manager>>

InitAdmin ==
    /\ variant = "portal_admin"
    /\ fit_reply = NoReply
    /\ connected = FALSE
    /\ db = EmptyDb
    /\ clock = 0
    /\ next_id = 1
    /\ manager = "Pragyanaiapp"
    /\ ret = NoCall
    /\ ss = EmptySession
    /\ env = SessionEnv(connected)

NextAdmin ==
    \/ AddJdFromTextAdmin
    \/ LoadAndParseResumesAdmin
    \/ RunMatchAnalysisClick
    \/ Rerun
    \/ ClearAllJds
    \/ ClearAllResumes

SpecAdmin == InitAdmin /\ [][NextAdmin]_vars

\* a click on Run Match Analysis that validation rejected
RejectedClick ==
    /\ fit_reply = NoReply
    /\ ret'.op = "run_match_analysis" /\ ~ret'.evaluated

RejectedClickKeepsResults ==
    RejectedClick => ss'.admin_match_results = ss.admin_match_results

\* C27: a Run Match Analysis click that validation rejects (empty JD content,
\* no resume selected) leaves the match results of the session as they were.
C27_RejectedClickKeepsResults == [][RejectedClickKeepsResults]_vars

\* C28: in the in-memory admin dashboard every entry of admin_match_results
\* names a resume that is in resumes_to_analyze and a JD that is in
\* admin_jd_list.
C28_ResultsNameLoadedPairs ==
    variant = "portal_admin"
    => \A k \in 1..Len(ss.admin_match_results) :
          /\ \E i \in 1..Len(ss.resumes_to_analyze) :
                ss.resumes_to_analyze[i].name = ss.admin_match_results[k].resume_name
          /\ \E j \in 1..Len(ss.admin_jd_list) :
                ss.admin_jd_list[j].name = ss.admin_match_results[k].jd_name

\* C28: results are held for one of two loaded resumes, and a JD was added
\* after the analysis
C28_Witness ==
    /\ variant = "portal_admin"
    /\ Len(ss.admin_match_results) = 1
    /\ Len(ss.resumes_to_analyze) = 2
    /\ Len(ss.admin_jd_list) = 1
    /\ fit_reply # NoReply

(***************************************************************************)
(* SpecCounter: the social-media counter of mongodb_manager.py, kept as    *)
(* the document "social_media_counter" of the collection platform_metrics  *)
(***************************************************************************)
\* col.find_one_and_update({"_id": "social_media_counter"}, {"$inc": ...,
\* "$set": ...}, upsert=True, return_document="after"): the store afterwards
find_one_and_update(d, delta, now) ==
    IF d["platform_metrics"] = <<>>
    THEN [d EXCEPT !["platform_metrics"] =
             <<[_id |-> "social_media_counter", count |-> delta, updated_at |-> now]>>]
    ELSE [d EXCEPT !["platform_metrics"][1] =
             [@ EXCEPT !.count = @ + delta, !.updated_at = now]]

\* the update returning the incremented count, negative or not
update_social_media_posts_count_NoFloor(d, conn, delta, now) ==
    IF ~conn THEN [db |-> d, result |-> 0]
    ELSE [db |-> find_one_and_update(d, delta, now),
          result |-> find_one_and_update(d, delta, now)["platform_metrics"][1].count]

\* def update_social_media_posts_count(self, delta)
update_social_media_posts_count(d, conn, delta, now) ==
    IF ~conn THEN [db |-> d, result |-> 0]
    ELSE IF find_one_and_update(d, delta, now)["platform_metrics"][1].count < 0
    THEN [db |-> [find_one_and_update(d, delta, now)
                     EXCEPT !["platform_metrics"][1].count = 0],
          result |-> 0]
    ELSE [db |-> find_one_and_update(d, delta, now),
          result |-> find_one_and_update(d, delta, now)["platform_metrics"][1].count]

\* the deltas of the calls, of either sign
Deltas == (-5)..5

\* db.update_social_media_posts_count(delta)
UpdateSocialMediaPostsCount ==
    /\ clock < MaxClock
    /\ \E delta \in Deltas :
       \E r \in {update_social_media_posts_count(db, connected, delta, clock)} :
          /\ db' = r.db
          /\ ret' = [op |-> "update_social_media_posts_count", delta |-> delta,
                     result |-> r.result]
    /\ clock' = clock + 1
    /\ UNCHANGED <<env, variant, fit_reply, ss, connected, next_id, manager>>

InitCounter ==
    /\ variant = "app_admin"
    /\ fit_reply = NoReply
    /\ ss = EmptySession
    /\ connected \in BOOLEAN
    /\ db = Put(EmptyDb, "platform_metrics", <<>>)
    /\ clock = 0
    /\ next_id = 1
    /\ manager = "mongodb_manager"
    /\ ret = NoCall
    /\ env = SessionEnv(connected)

NextCounter == UpdateSocialMediaPostsCount

SpecCounter == InitCounter /\ [][NextCounter]_vars

\* the stored counter: the count of the document, 0 while there is none
StoredCount ==
    IF db["platform_metrics"] = <<>> THEN 0 ELSE db["platform_metrics"][1].count

Sessions == {"s1", "s2"}

\* no save in flight
Idle == [pc |-> "idle", op |-> "none", data |-> <<>>, user_role |-> "none", existing |-> 0]

\* find_one has answered; update_one or insert_one is still to be sent
Found(op, data, user_role, existing) ==
    [pc |-> "found", op |-> op, data |-> data, user_role |-> user_role, existing |-> existing]

\* the saves in flight
InFlight == {s \in Sessions : ss[s].pc = "found"}

\* save_jd up to and including collection.find_one(...)
SaveJdFind(s) ==
    /\ ss[s].pc = "idle"
    /\ clock + Cardinality(InFlight) < MaxClock
    /\ \E name \in JdNames, content \in JdContents, user_role \in Roles :
          \E jd_data \in {[name |-> name, content |-> content]} :
          \E existing_jd \in find_one(MatchingJds(db[JdsOf(user_role)], jd_data)) :
             /\ ss' = [ss EXCEPT ![s] = Found("save_jd", jd_data, user_role, existing_jd)]
             /\ ret' = [op |-> "find_one", session |-> s, found |-> existing_jd # 0]
    /\ UNCHANGED <<env, variant, fit_reply, connected, db, clock, next_id, manager>>

\* save_jd from the test of existing_jd to its return
SaveJdWrite(s) ==
    /\ ss[s].pc = "found" /\ ss[s].op = "save_jd"
    /\ \E r \in {save_jd(db, connected, ss[s].data, ss[s].user_role, clock, next_id, ss[s].existing)} :
          /\ db' = r.db
          /\ clock' = Tick(connected, clock)
          /\ next_id' = Fresh(r.result, next_id)
          /\ ret' = [op |-> "save_jd", session |-> s, data |-> ss[s].data,
                     user_role |-> ss[s].user_role, found |-> ss[s].existing # 0,
                     result |-> r.result]
    /\ ss' = [ss EXCEPT ![s] = Idle]
    /\ UNCHANGED <<env, variant, fit_reply, connected, manager>>

\* save_resume up to and including collection.find_one(...)
SaveResumeFind(s) ==
    /\ ss[s].pc = "idle"
    /\ clock + Cardinality(InFlight) < MaxClock
    /\ \E resume_data \in ResumeInputs :
          \E existing_resume \in find_one(MatchingResumes(db["admin_resumes"], resume_data.name)) :
             /\ ss' = [ss EXCEPT ![s] = Found("save_resume", resume_data, "none", existing_resume)]
             /\ ret' = [op |-> "find_one", session |-> s, found |-> existing_resume # 0]
    /\ UNCHANGED <<env, variant, fit_reply, connected, db, clock, next_id, manager>>

\* save_resume from the test of existing_resume to its return
SaveResumeWrite(s) ==
    /\ ss[s].pc = "found" /\ ss[s].op = "save_resume"
    /\ \E r \in {save_resume(manager, db, connected, ss[s].data, clock, next_id, ss[s].existing)} :
          /\ db' = r.db
          /\ clock' = Tick(connected, clock)
          /\ next_id' = Fresh(r.result, next_id)
          /\ ret' = [op |-> "save_resume", session |-> s, data |-> ss[s].data,
                     found |-> ss[s].existing # 0, result |-> r.result]
    /\ ss' = [ss EXCEPT ![s] = Idle]
    /\ UNCHANGED <<env, variant, fit_reply, connected, manager>>

\* save_vendor up to and including collection.find_one(...)
SaveVendorFind(s) ==
    /\ ss[s].pc = "idle"
    /\ clock + Cardinality(InFlight) < MaxClock
    /\ \E name \in VendorNames, contact_email \in ContactEmails :
          \E vendor_data \in {[name |-> name, contact_email |-> contact_email,
                               industry |-> "IT", status |-> "Pending"]} :
          \E existing_vendor \in find_one(MatchingVendors(manager, db["vendors"], vendor_data)) :
             /\ ss' = [ss EXCEPT ![s] = Found("save_vendor", vendor_data, "none", existing_vendor)]
             /\ ret' = [op |-> "find_one", session |-> s, found |-> existing_vendor # 0]
    /\ UNCHANGED <<env, variant, fit_reply, connected, db, clock, next_id, manager>>

\* save_vendor from the test of existing_vendor to its return
SaveVendorWrite(s) ==
    /\ ss[s].pc = "found" /\ ss[s].op = "save_vendor"
    /\ \E r \in {save_vendor(db, connected, ss[s].data, clock, next_id, ss[s].existing)} :
          /\ db' = r.db
          /\ clock' = Tick(connected, clock)
          /\ next_id' = Fresh(r.result, next_id)
          /\ ret' = [op |-> "save_vendor", session |-> s, data |-> ss[s].data,
                     found |-> ss[s].existing # 0, result |-> r.result]
    /\ ss' = [ss EXCEPT ![s] = Idle]
    /\ UNCHANGED <<env, variant, fit_reply, connected, manager>>

InitShared ==
    /\ variant = "app_admin"
    /\ fit_reply = NoReply
    /\ ss = [s \in Sessions |-> Idle]
    /\ connected = TRUE
    /\ db = EmptyDb
    /\ clock = 0
    /\ next_id = 1
    /\ manager \in Managers
    /\ ret = NoCall
    /\ env = SessionEnv(connected)

NextShared ==
    \/ \E s \in Sessions : SaveJdFind(s)
    \/ \E s \in Sessions : SaveJdWrite(s)
    \/ \E s \in Sessions : SaveResumeFind(s)
    \/ \E s \in Sessions : SaveResumeWrite(s)
    \/ \E s \in Sessions : SaveVendorFind(s)
    \/ \E s \in Sessions : SaveVendorWrite(s)

SpecShared == InitShared /\ [][NextShared]_vars

UniqueVendorNames ==
    LET docs == db["vendors"]
    IN  \A i, j \in 1..Len(docs) : i # j => docs[i].name # docs[j].name

\* C24: with two sessions sharing the database, every interleaving of their
\* save_jd, save_resume and save_vendor calls leaves at most one document per
\* natural key: (name, content) of a JD in a role's collection, the name of a
\* resume, the name of a vendor.
C24_OneDocumentPerKeyShared ==
    /\ UniqueJds("admin") /\ UniqueJds("candidate")
    /\ UniqueResumes
    /\ UniqueVendorNames

====
